---- MODULE Spec2Model ----
(***************************************************************************)
(* Data acquisition with fallback (NASAOPeNDAPClient.get_merra2_data,      *)
(* MultiVariableDataManager.get_multi_variable_data) and series cleaning   *)
(* (MultiVariableDataManager._clean_time_series_data) of 18new_app.py.     *)
(*                                                                         *)
(* Dates are day numbers.  Values are integers standing for the floats of  *)
(* the program; the 3-sigma test of the cleaning step is computed exactly  *)
(* in integer arithmetic.  An observation carries two ghost fields the     *)
(* program does not have: origin records where its value came from         *)
(* ("extracted" from a downloaded dataset or "synthetic" from the          *)
(* generator), and recent the recent values the generator call that made   *)
(* it worked with (None for an extracted value).                           *)
(***************************************************************************)
EXTENDS FiniteSets, Integers, Sequences, TLC

VARIABLES
    auth,               \* NASAEarthdataAuthenticator.auth: credentials present
    downloaded_dates,   \* NASAOPeNDAPClient.downloaded_dates
    temp_files,         \* temporary .nc4 files of the client that exist on disk
    last_fetch,         \* ghost: what the latest get_merra2_data call did
    pc,                 \* position inside get_multi_variable_data
    products_variables, \* argument: sequence of <<product_key, variable>>
    end_date,           \* argument (start_date is StartDate)
    idx,                \* position of the for loop in products_variables
    all_data,           \* result mapping, key <<product_key, variable>>
    data_points,        \* per pair: list of observations
    current_date,       \* per pair: loop date
    days_processed,     \* per pair: loop counter
    fetches,            \* ghost: _get_data_with_fallback calls for this pair
    completed_requests, \* progress counter
    progress,           \* ghost: values handed to progress_callback
    events,             \* ghost: off-nominal dates so far
    df,                 \* cleaning: the series under cleaning
    prev,               \* cleaning: the series before the latest cleaning
    cleaned,            \* cleaning: how many times df was cleaned
    data_dict,          \* analyzer: the mapping handed to the analyzer
    models,             \* AdvancedMultiAnalyzer.models
    forecast_cache,     \* AdvancedMultiAnalyzer.forecast_cache
    result,             \* analyzer: what the latest call returned
    prev_result,        \* analyzer: what the call before it returned
    calls,              \* analyzer: number of calls made
    generated           \* generator: the latest call and what it returned

vars == <<auth, downloaded_dates, temp_files, last_fetch, pc,
          products_variables, end_date, idx, all_data,
          data_points, current_date, days_processed, fetches,
          completed_requests, progress, events,
          df, prev, cleaned,
          data_dict, models, forecast_cache, result, prev_result, calls,
          generated>>

acqVars == <<auth, downloaded_dates, temp_files, last_fetch, pc,
             products_variables, end_date, idx, all_data,
             data_points, current_date, days_processed, fetches,
             completed_requests, progress, events>>

cleanVars == <<df, prev, cleaned>>

anaVars == <<data_dict, models, forecast_cache, result, prev_result, calls>>

genVars == <<generated>>

(***************************************************************************)
(* Bounds of the model.                                                    *)
(***************************************************************************)
\* the requested range is StartDate..e for e in 0..MaxEnd, or StartDate..LongEnd
MaxEnd == 11
LongEnd == 35
\* longest request list
MaxPairs == 2
\* dates of one behaviour on which the environment is off-nominal: the
\* server answers a download with status 200, or the value is the far-off one
MaxEvents == 1

StartDate == 1
\* direct client calls: their number and their dates 1..MaxDate
MaxCalls == 4
MaxDate == 3
ClientVariables == {"T2M", "PRECTOT"}
\* series handed to the cleaning directly: MaxPad or fewer nominal rows on
\* consecutive days, then at most MaxLen free rows on MaxTs days, the first
\* of which is the last nominal day
MaxPad == 10
MaxLen == 2
MaxTs == 2
\* times the cleaning is applied in a row
MaxCleans == 2

\* Optional[float] and Optional[str]: None is the empty sequence, a value x
\* is <<x>>
None == <<>>
Some(x) == <<x>>
Get(o) == o[1]
\* a missing value of a series: a number no observation takes
NaN == 0 - 1

\* the values the environment draws: a nominal one and a far-off one
Values == {15, 100}
NominalValue == CHOOSE v \in Values : \A w \in Values : v <= w

Min(a, b) == IF a <= b THEN a ELSE b

(***************************************************************************)
(* Program constants.                                                      *)
(***************************************************************************)
\* keys of NASA_PRODUCTS
NASA_PRODUCTS == {"MERRA2_400", "IMERG_FINAL", "MODIS_TERRA", "GLDAS_NOAH"}

\* NASA_PRODUCTS[product_key]["short_name"]
short_name(product_key) ==
    CASE product_key = "MERRA2_400" -> "M2T1NXLND"
      [] product_key = "IMERG_FINAL" -> "GPM_3IMERGDF"
      [] product_key = "MODIS_TERRA" -> "MOD04_L2"
      [] product_key = "GLDAS_NOAH" -> "GLDAS_NOAH025_3H"
      [] OTHER -> "?"

max_download_attempts == 3
max_daily_requests == 10
MaxRangeDays == 30
MaxUrls == 2

\* the (product, variable) pairs a request is drawn from; "UNKNOWN" is not a
\* key of NASA_PRODUCTS
Pairs == { <<"MERRA2_400", "T2M">>, <<"MERRA2_400", "PRECTOT">>,
           <<"IMERG_FINAL", "precipitationCal">>,
           <<"GLDAS_NOAH", "Tair_f_inst">>, <<"UNKNOWN", "X">> }

Requests == UNION { [1..n -> Pairs] : n \in 0..MaxPairs }

EndDates == (0..MaxEnd) \cup {LongEnd}

(***************************************************************************)
(* NASAOPeNDAPClient                                                       *)
(***************************************************************************)
\* What one download attempt meets in the environment:
\*   http_error   session.get raises or the status is not 200
\*   write_error  status 200, the temporary file is created, writing raises
\*   open_error   the file is written, xr.open_dataset raises
\*   no_variable  the dataset opens, the variable is not in ds.variables
\*   rejected     _extract_data_from_dataset returns None (masked, NaN,
\*                magnitude above 1e10, no coordinates, or it raised inside)
\*   value        _extract_data_from_dataset returns a float
Outcomes == {"http_error", "write_error", "open_error", "no_variable",
             "rejected", "value"}

Is200(outcome) == outcome # "http_error"

\* (variant: credentials are taken to be present)
get_auth_always(a) == TRUE

\* NASAEarthdataAuthenticator.get_auth: truthiness of self.auth
get_auth(a) == a

\* a name tempfile.NamedTemporaryFile has not handed out yet
FreshFile(tf) == CHOOSE f \in 1..(Cardinality(tf) + 1) : f \notin tf

\* _download_nc_file: the path returned (None on any failure) and the files
\* on disk afterwards; requested says whether session.get was reached
download_nc_file(url, outcome, a, tf) ==
    IF ~get_auth(a)
    THEN [path |-> None, tf |-> tf, created |-> {}, requested |-> FALSE]
    ELSE IF outcome = "http_error"
    THEN [path |-> None, tf |-> tf, created |-> {}, requested |-> TRUE]
    ELSE IF outcome = "write_error"
    THEN [path |-> None, tf |-> tf \cup {FreshFile(tf)},
          created |-> {FreshFile(tf)}, requested |-> TRUE]
    ELSE [path |-> Some(FreshFile(tf)), tf |-> tf \cup {FreshFile(tf)},
          created |-> {FreshFile(tf)}, requested |-> TRUE]

\* _extract_data_from_dataset: a float or None; it catches its own exceptions
extract_data_from_dataset(outcome, rv) ==
    IF outcome = "value" THEN Some(rv) ELSE None

\* date_key = f"merra2_{target_date.strftime('%Y%m%d')}": one key per day
date_key(target_date) == <<"merra2", target_date>>

\* _generate_merra2_urls: one URL per collection, at most MaxUrls of them;
\* both branches of the year test give the same single collection
merra2_collections(target_date) == <<"400">>

generate_merra2_urls(target_date) ==
    LET urls == [i \in 1..Len(merra2_collections(target_date)) |->
                    <<merra2_collections(target_date)[i], target_date>>]
    IN SubSeq(urls, 1, Min(MaxUrls, Len(urls)))

\* urls_to_try[:self.max_download_attempts]
urls_to_try(target_date) ==
    LET urls == generate_merra2_urls(target_date)
    IN SubSeq(urls, 1, Min(max_download_attempts, Len(urls)))

\* (variant: the exception of an attempt leaves the URL loop)
attempt_exception_aborts == FALSE

\* the inner "except Exception: continue" of the URL loop: TRUE when the
\* exception of an attempt is swallowed and the loop goes on
attempt_exception_continues == TRUE

\* The body of the URL loop after _download_nc_file returned d (lines
\* 1091-1104).  st = [tf, created, attempts, requests]; the result has the
\* new st and how = "value" (the call returns value), "next" (the loop goes
\* on) or "raised" (an exception leaves the loop)
after_download(d, outcome, rv, st) ==
    LET st1 == [tf |-> d.tf,
                created |-> st.created \cup d.created,
                attempts |-> st.attempts + 1,
                requests |-> st.requests + (IF d.requested THEN 1 ELSE 0)]
        unlinked == [st1 EXCEPT !.tf = @ \ {Get(d.path)}]
    IN IF d.path = None
       THEN [how |-> "next", value |-> None, st |-> st1]
       ELSE IF outcome = "open_error"
       THEN \* xr.open_dataset raised: os.unlink is not reached
            [how |-> IF attempt_exception_continues THEN "next" ELSE "raised",
             value |-> None, st |-> st1]
       ELSE IF outcome = "no_variable"
       THEN [how |-> "next", value |-> None, st |-> unlinked]
       ELSE IF extract_data_from_dataset(outcome, rv) # None
       THEN [how |-> "value",
             value |-> extract_data_from_dataset(outcome, rv),
             st |-> unlinked]
       ELSE [how |-> "next", value |-> None, st |-> unlinked]

\* the body of the URL loop for one URL (lines 1087-1104)
attempt(url, variable, outcome, rv, a, st) ==
    after_download(download_nc_file(url, outcome, a, st.tf), outcome, rv, st)

\* "for url in urls_to_try[:self.max_download_attempts]" from urls[i] on;
\* how = "exhausted" when the loop ran to its end
RECURSIVE try_urls(_, _, _, _, _, _, _)
RECURSIVE after_attempt(_, _, _, _, _, _, _)
try_urls(urls, i, variable, env, rv, a, st) ==
    IF i > Len(urls)
    THEN [how |-> "exhausted", value |-> None, st |-> st]
    ELSE after_attempt(attempt(urls[i], variable, env[i], rv, a, st),
                       urls, i, variable, env, rv, a)

\* the loop after the attempt on urls[i] gave r
after_attempt(r, urls, i, variable, env, rv, a) ==
    IF r.how = "next"
    THEN try_urls(urls, i + 1, variable, env, rv, a, r.st)
    ELSE r

\* recent_values = [d['value'] for d in historical_data[-5:]]
recent_values(historical_data) ==
    [i \in 1..Min(5, Len(historical_data)) |->
        historical_data[Len(historical_data) - Min(5, Len(historical_data))
                           + i].value]

\* MultiVariableDataManager._generate_enhanced_simulated_value: a seasonal
\* baseline plus uniform and gamma draws; v is the value the draws give.
\* The function is total: it returns a float for every argument list.
\* recent_values is a ghost field: the values of the history the call was
\* handed that enter its historical trend.
generate_enhanced_simulated_value(variable, timestamp, historical_data, v) ==
    [value |-> v, recent_values |-> recent_values(historical_data)]

\* NASAOPeNDAPClient._generate_simulated_value: the generator of a new
\* manager, always with an empty history
generate_simulated_value(variable, target_date, v) ==
    generate_enhanced_simulated_value(variable, target_date, <<>>, v)

\* (variant: the resolved-dates set is not consulted)
already_downloaded_never(key, dd) == FALSE

\* "if date_key in self.downloaded_dates"
already_downloaded(key, dd) == key \in dd

\* what a get_merra2_data call hands back: the value returned, the new
\* downloaded_dates (dd1) and temp_files, and the ghost record of the call
returned(value, origin, recent, path, variable, target_date, env, a, dd, dd1, st) ==
    [value |-> value, origin |-> origin, recent |-> recent, dd |-> dd1,
     tf |-> st.tf,
     fetch |-> [date |-> target_date, variable |-> variable, path |-> path,
                attempts |-> st.attempts, requests |-> st.requests,
                created |-> st.created, origin |-> origin, raised |-> FALSE,
                known |-> date_key(target_date) \in dd, auth |-> a, n |-> 0,
                value |-> None, env |-> env]]

\* "return self._generate_simulated_value(variable, lat, lon, target_date)"
simulated(path, variable, target_date, env, v, a, dd, dd1, st) ==
    returned(Some(generate_simulated_value(variable, target_date, v).value),
             "synthetic",
             Some(generate_simulated_value(variable, target_date,
                                           v).recent_values),
             path, variable, target_date, env, a, dd, dd1, st)

\* (variant: the date is not recorded)
downloaded_dates_unchanged(dd, key) == dd

\* self.downloaded_dates.add(date_key)
downloaded_dates_add(dd, key) == dd \cup {key}

\* the end of get_merra2_data once the URL loop gave r: the value found
\* (lines 1095-1099), the generator after the loop (lines 1106-1108), or
\* the generator of the outer "except Exception" (lines 1110-1112)
after_urls(r, variable, target_date, env, v, a, dd) ==
    IF r.how = "value"
    THEN returned(r.value, "extracted", None, "extracted", variable, target_date,
                  env, a, dd, downloaded_dates_add(dd, date_key(target_date)),
                  r.st)
    ELSE IF r.how = "exhausted"
    THEN simulated("exhausted", variable, target_date, env, v, a, dd,
                   downloaded_dates_add(dd, date_key(target_date)), r.st)
    ELSE simulated("error", variable, target_date, env, v, a, dd, dd, r.st)

\* no attempt made yet
NoAttempt(tf) == [tf |-> tf, created |-> {}, attempts |-> 0, requests |-> 0]

\* get_merra2_data.  env[i] is what attempt i meets, rv the value in the
\* dataset, v the value the generator draws.
get_merra2_data(variable, target_date, env, rv, v, a, dd, tf) ==
    IF already_downloaded(date_key(target_date), dd)
    THEN simulated("cached", variable, target_date, env, v, a, dd, dd,
                   NoAttempt(tf))
    ELSE IF ~get_auth(a)
    THEN simulated("no_auth", variable, target_date, env, v, a, dd, dd,
                   NoAttempt(tf))
    ELSE after_urls(try_urls(urls_to_try(target_date), 1, variable, env, rv,
                             a, NoAttempt(tf)),
                    variable, target_date, env, v, a, dd)

\* get_imerg_data: placeholder, the generator's value
get_imerg_data(variable, target_date, v) ==
    [value |-> Some(generate_simulated_value(variable, target_date, v).value),
     origin |-> "synthetic",
     recent |-> Some(generate_simulated_value(variable, target_date,
                                              v).recent_values)]

(***************************************************************************)
(* MultiVariableDataManager                                                *)
(***************************************************************************)
\* last_fetch before any get_merra2_data call
NoFetch == [date |-> 0, variable |-> "", path |-> "none", attempts |-> 0,
            requests |-> 0, created |-> {}, origin |-> "none",
            raised |-> FALSE, known |-> FALSE, auth |-> FALSE, n |-> 0,
            value |-> None, env |-> <<>>]

\* _try_8new_app_methods: the generator with an empty history
try_8new_app_methods(product_key, variable, target_date, v) ==
    [value |-> Some(generate_enhanced_simulated_value(variable, target_date,
                                                      <<>>, v).value),
     origin |-> "synthetic",
     recent |-> Some(generate_enhanced_simulated_value(variable, target_date,
                                                       <<>>, v).recent_values)]

\* _get_data_with_fallback after the client's get_merra2_data returned r:
\* an exception of the client gives None; the client's state and the ghost
\* record of the call are kept
merra2_result(r, env, lf) ==
    [value |-> IF r.fetch.raised THEN None ELSE r.value,
     origin |-> r.origin, recent |-> r.recent, dd |-> r.dd, tf |-> r.tf,
     fetch |-> [r.fetch EXCEPT !.n = lf.n + 1, !.value = r.value],
     responses |-> Cardinality({i \in 1..r.fetch.requests : Is200(env[i])})]

\* _get_data_with_fallback after another method returned r: the client's
\* state is untouched
other_result(r, dd, tf, lf) ==
    [value |-> r.value, origin |-> r.origin, recent |-> r.recent, dd |-> dd,
     tf |-> tf,
     fetch |-> lf, responses |-> 0]

\* _get_data_with_fallback: dispatch on the product
get_data_with_fallback(product_key, variable, date, env, rv, v, a, dd, tf, lf) ==
    IF product_key = "MERRA2_400"
    THEN merra2_result(get_merra2_data(variable, date, env, rv, v, a, dd, tf),
                       env, lf)
    ELSE IF product_key = "IMERG_FINAL"
    THEN other_result(get_imerg_data(variable, date, v), dd, tf, lf)
    ELSE other_result(try_8new_app_methods(product_key, variable, date, v),
                      dd, tf, lf)

\* the dict appended to data_points for one date (lines 1246-1265); the
\* location field is the same string in every observation and is left out
observation(product_key, variable, date, real_value, origin, recent, v, points) ==
    IF real_value # None
    THEN [timestamp |-> date, value |-> Get(real_value),
          variable |-> <<product_key, variable>>,
          source |-> <<short_name(product_key)>>,
          data_quality |-> "real", origin |-> origin, recent |-> recent]
    ELSE [timestamp |-> date,
          value |-> generate_enhanced_simulated_value(variable, date,
                                                      points, v).value,
          variable |-> <<product_key, variable>>,
          source |-> <<short_name(product_key), "_simulated">>,
          data_quality |-> "simulated", origin |-> "synthetic",
          recent |-> Some(generate_enhanced_simulated_value(
                              variable, date, points, v).recent_values)]

\* (variant: a date whose value is not from a dataset gets no observation)
new_points_real_only(product_key, variable, date, real_value, origin, recent, v, pts) ==
    IF origin = "extracted"
    THEN <<observation(product_key, variable, date, real_value, origin,
                       recent, v, pts)>>
    ELSE <<>>

\* the points one loop iteration appends to data_points
new_points(product_key, variable, date, real_value, origin, recent, v, pts) ==
    <<observation(product_key, variable, date, real_value, origin, recent, v,
                  pts)>>

\* (variant: the end date is not counted)
total_days_exclusive(start, end) == Min(end - start, MaxRangeDays)

\* total_days = min((end_date - start_date).days + 1, 30)
total_days(start, end) == Min(end - start + 1, MaxRangeDays)

\* (variant: the end date is excluded)
loop_cond_exclusive(date, end, processed) ==
    date < end /\ processed < max_daily_requests

\* (variant: the request cap is off by one)
loop_cond_off_by_one(date, end, processed) ==
    date <= end /\ processed <= max_daily_requests

\* "while current_date <= end_date and days_processed < max_daily_requests"
loop_cond(date, end, processed) ==
    date <= end /\ processed < max_daily_requests

\* "if product_key not in NASA_PRODUCTS: continue"
recognized(product_key) == product_key \in NASA_PRODUCTS

(***************************************************************************)
(* _clean_time_series_data.  A series is a sequence of records with at     *)
(* least the fields timestamp, variable and value.                         *)
(***************************************************************************)
\* the subsequence of s at the positions in keep, in order
RECURSIVE Restrict(_, _, _)
Restrict(s, keep, i) ==
    IF i > Len(s) THEN <<>>
    ELSE (IF i \in keep THEN <<s[i]>> ELSE <<>>) \o Restrict(s, keep, i + 1)

RECURSIVE SumValues(_, _)
SumValues(s, i) ==
    IF i > Len(s) THEN 0 ELSE s[i].value + SumValues(s, i + 1)

RECURSIVE SumSquares(_, _)
SumSquares(s, i) ==
    IF i > Len(s) THEN 0 ELSE s[i].value * s[i].value + SumSquares(s, i + 1)

\* sort_values('timestamp'): rows in timestamp order; rows of equal
\* timestamp keep their input order (numpy's default sort is an insertion
\* sort on arrays of up to 16 elements, which covers every series here)
RECURSIVE sort_values(_, _)
sort_values(s, n) ==
    IF n = 0 THEN <<>>
    ELSE LET t == sort_values(s, n - 1)
             k == Cardinality({i \in 1..Len(t) :
                                  t[i].timestamp <= s[n].timestamp})
         IN SubSeq(t, 1, k) \o <<s[n]>> \o SubSeq(t, k + 1, Len(t))

\* (variant: keep='last')
drop_duplicates_last(s) ==
    Restrict(s, {i \in 1..Len(s) :
                    ~\E j \in (i + 1)..Len(s) :
                        /\ s[j].timestamp = s[i].timestamp
                        /\ s[j].variable = s[i].variable}, 1)

\* drop_duplicates(subset=['timestamp', 'variable'], keep='first')
drop_duplicates(s) ==
    Restrict(s, {i \in 1..Len(s) :
                    ~\E j \in 1..(i - 1) :
                        /\ s[j].timestamp = s[i].timestamp
                        /\ s[j].variable = s[i].variable}, 1)

\* fillna(method='ffill'): a missing value takes the last value before it
ffill(s) ==
    [i \in 1..Len(s) |->
        IF s[i].value # NaN THEN s[i]
        ELSE LET before == {j \in 1..i : s[j].value # NaN}
             IN IF before = {} THEN s[i]
                ELSE [s[i] EXCEPT !.value =
                         s[CHOOSE j \in before : \A k \in before : k <= j].value]]

\* fillna(method='bfill'): a missing value takes the first value after it
bfill(s) ==
    [i \in 1..Len(s) |->
        IF s[i].value # NaN THEN s[i]
        ELSE LET after == {j \in i..Len(s) : s[j].value # NaN}
             IN IF after = {} THEN s[i]
                ELSE [s[i] EXCEPT !.value =
                         s[CHOOSE j \in after : \A k \in after : j <= k].value]]

\* the multiple of the standard deviation the outlier filter allows
SigmaLimit == 3
\* the filter runs on series longer than this
MinFilterLen == 5

\* The outlier filter (lines 1208-1215).  With n rows, S the sum and Q the
\* sum of squares of the values, the sample variance is D / (n (n - 1)) for
\* D = n Q - S^2, so std > 0 is D > 0 and |v - mean| <= 3 std is
\* (n v - S)^2 (n - 1) <= 9 n D.  A series whose values are all missing has
\* a NaN deviation and is not filtered.
outlier_filter(s) ==
    LET n == Len(s)
        S == SumValues(s, 1)
        Q == SumSquares(s, 1)
        D == n * Q - S * S
    IN IF n > MinFilterLen /\ (\A i \in 1..n : s[i].value # NaN) /\ D > 0
       THEN Restrict(s, {i \in 1..n :
                           (n * s[i].value - S) * (n * s[i].value - S) * (n - 1)
                               <= SigmaLimit * SigmaLimit * n * D}, 1)
       ELSE s

\* _clean_time_series_data on a well-formed frame (the fillna(method=...)
\* calls are those of pandas before 3.0); reset_index renumbers the rows,
\* which a sequence does by itself
clean_time_series_data(s) ==
    IF s = <<>> THEN s
    ELSE outlier_filter(bfill(ffill(drop_duplicates(sort_values(s, Len(s))))))

(***************************************************************************)
(* get_multi_variable_data, one action per position of its loops.          *)
(***************************************************************************)
key_of(pair) == <<pair[1], pair[2]>>

\* the call: all_data = {}, total_days, total_requests, completed_requests
\* (a progress_callback is given)
Call(request, end) ==
    /\ pc = "idle"
    /\ pc' = "for"
    /\ products_variables' = request
    /\ end_date' = end
    /\ idx' = 1
    /\ all_data' = <<>>
    /\ completed_requests' = 0
    /\ progress' = <<>>
    /\ UNCHANGED <<auth, downloaded_dates, temp_files, last_fetch,
                   data_points, current_date, days_processed, fetches,
                   events>>
    /\ UNCHANGED <<cleanVars, anaVars, genVars>>

total_requests == Len(products_variables) * total_days(StartDate, end_date)

\* for loop: a pair whose product is not in NASA_PRODUCTS is skipped
SkipPair ==
    /\ pc = "for"
    /\ idx <= Len(products_variables)
    /\ ~recognized(products_variables[idx][1])
    /\ idx' = idx + 1
    /\ UNCHANGED <<auth, downloaded_dates, temp_files, last_fetch, pc,
                   products_variables, end_date, all_data,
                   data_points, current_date, days_processed, fetches,
                   completed_requests, progress, events>>
    /\ UNCHANGED <<cleanVars, anaVars, genVars>>

\* for loop: data_points = [], current_date = start_date, days_processed = 0
EnterPair ==
    /\ pc = "for"
    /\ idx <= Len(products_variables)
    /\ recognized(products_variables[idx][1])
    /\ pc' = "while"
    /\ data_points' = <<>>
    /\ current_date' = StartDate
    /\ days_processed' = 0
    /\ fetches' = 0
    /\ UNCHANGED <<auth, downloaded_dates, temp_files, last_fetch,
                   products_variables, end_date, idx, all_data,
                   completed_requests, progress, events>>
    /\ UNCHANGED <<cleanVars, anaVars, genVars>>

\* The environments one get_merra2_data call can meet: an outcome out of
\* outcomes for each URL it may try.  A call that makes no attempt meets
\* none of them, and is given the all-fail environment.
Envs(product_key, date, outcomes) ==
    IF /\ product_key = "MERRA2_400"
       /\ auth
       /\ date_key(date) \notin downloaded_dates
    THEN [1..Len(urls_to_try(date)) -> outcomes]
    ELSE {[i \in 1..Len(urls_to_try(date)) |-> "http_error"]}

\* Under get_multi_variable_data the server either refuses a download or
\* serves a dataset that holds the value; the other outcomes are those of
\* the direct calls of ClientCall.
ServedOutcomes == {"http_error", "value"}

\* the end of a loop iteration: pts are appended, the client's state is r's
AppendPoints(r, pts) ==
    LET spiked == Cardinality({i \in 1..Len(pts) :
                                  pts[i].value # NominalValue})
        event == IF r.responses + spiked > 0 THEN 1 ELSE 0
    IN /\ events + event <= MaxEvents
       /\ events' = events + event
       /\ downloaded_dates' = r.dd
       /\ temp_files' = r.tf
       /\ last_fetch' = r.fetch
       /\ data_points' = data_points \o pts

\* a loop iteration after _get_data_with_fallback returned r
FetchStep(r, v) ==
    AppendPoints(r, new_points(products_variables[idx][1],
                               products_variables[idx][2], current_date,
                               r.value, r.origin, r.recent, v,
                               data_points))

\* one iteration of the while loop (lines 1243-1286); x is the value this
\* date's dataset holds and the value this date's generator call draws
FetchDate ==
    /\ pc = "while"
    /\ loop_cond(current_date, end_date, days_processed)
    /\ \E env \in Envs(products_variables[idx][1], current_date,
                        ServedOutcomes),
          x \in Values :
         FetchStep(get_data_with_fallback(products_variables[idx][1],
                                          products_variables[idx][2],
                                          current_date, env, x, x, auth,
                                          downloaded_dates, temp_files,
                                          last_fetch), x)
    /\ fetches' = fetches + 1
    /\ completed_requests' = completed_requests + 1
    /\ days_processed' = days_processed + 1
    /\ progress' = Append(progress,
                          <<completed_requests + 1, total_requests>>)
    /\ current_date' = current_date + 1
    /\ UNCHANGED <<auth, pc, products_variables, end_date, idx, all_data>>
    /\ UNCHANGED <<cleanVars, anaVars, genVars>>

\* all_data[key] = value: a new key goes to the end, the value of a key that
\* is there is replaced in its place
Put(m, k, x) ==
    IF \E i \in 1..Len(m) : m[i][1] = k
    THEN [i \in 1..Len(m) |-> IF m[i][1] = k THEN <<k, x>> ELSE m[i]]
    ELSE Append(m, <<k, x>>)

Keys(m) == {m[i][1] : i \in 1..Len(m)}
Lookup(m, k) == (CHOOSE i \in 1..Len(m) : m[i][1] = k)

\* after the while loop: the points are cleaned and stored (lines 1288-1291)
StorePair ==
    /\ pc = "while"
    /\ ~loop_cond(current_date, end_date, days_processed)
    /\ all_data' = IF data_points # <<>>
                   THEN Put(all_data, key_of(products_variables[idx]),
                            clean_time_series_data(data_points))
                   ELSE all_data
    /\ idx' = idx + 1
    /\ pc' = "for"
    /\ UNCHANGED <<auth, downloaded_dates, temp_files, last_fetch,
                   products_variables, end_date,
                   data_points, current_date, days_processed, fetches,
                   completed_requests, progress, events>>
    /\ UNCHANGED <<cleanVars, anaVars, genVars>>

\* return all_data
Return ==
    /\ pc = "for"
    /\ idx > Len(products_variables)
    /\ pc' = "done"
    /\ UNCHANGED <<auth, downloaded_dates, temp_files, last_fetch,
                   products_variables, end_date, idx, all_data,
                   data_points, current_date, days_processed, fetches,
                   completed_requests, progress, events>>
    /\ UNCHANGED <<cleanVars, anaVars, genVars>>

\* the client's state after a direct call returned r
ClientReturn(r) ==
    /\ downloaded_dates' = r.dd
    /\ temp_files' = r.tf
    /\ last_fetch' = r.fetch

\* A direct call client.get_merra2_data(variable, lat, lon, date) on the
\* manager's client, under any environment
ClientCall(variable, date) ==
    /\ pc = "idle"
    /\ last_fetch.n < MaxCalls
    /\ \E env \in Envs("MERRA2_400", date, Outcomes), x \in Values :
         ClientReturn(merra2_result(
             get_merra2_data(variable, date, env, x, x, auth,
                             downloaded_dates, temp_files),
             env, last_fetch))
    /\ UNCHANGED <<auth, pc, products_variables, end_date, idx, all_data,
                   data_points, current_date, days_processed, fetches,
                   completed_requests, progress, events>>
    /\ UNCHANGED <<cleanVars, anaVars, genVars>>

\* the state after MultiVariableDataManager() was constructed: the client's
\* downloaded_dates is empty; the credentials are there or not
InitAcq ==
    /\ auth \in BOOLEAN
    /\ downloaded_dates = {}
    /\ temp_files = {}
    /\ last_fetch = NoFetch
    /\ pc = "idle"
    /\ products_variables = <<>>
    /\ end_date = 0
    /\ idx = 1
    /\ all_data = <<>>
    /\ data_points = <<>>
    /\ current_date = StartDate
    /\ days_processed = 0
    /\ fetches = 0
    /\ completed_requests = 0
    /\ progress = <<>>
    /\ events = 0
    /\ prev = <<>>
    /\ cleaned = 0

\* what a call that has not been made returned
NoResult == [kind |-> "none"]

\* the state after AdvancedMultiAnalyzer() was constructed (lines 1456-1458);
\* the generator was not called directly
InitAnalyzer ==
    /\ models = <<>>
    /\ forecast_cache = <<>>
    /\ result = NoResult
    /\ prev_result = NoResult
    /\ calls = 0
    /\ generated = NoResult

\* no series is under cleaning outside get_multi_variable_data, and no
\* mapping was handed to the analyzer
Init ==
    /\ InitAcq
    /\ df = <<>>
    /\ InitAnalyzer
    /\ data_dict = <<>>

Next ==
    \/ \E request \in Requests, end \in EndDates :
          Call(request, end)
    \/ SkipPair
    \/ EnterPair
    \/ FetchDate
    \/ StorePair
    \/ Return

Spec == Init /\ [][Next]_vars

(***************************************************************************)
(* _clean_time_series_data applied to a series, and again to its result.   *)
(***************************************************************************)
CleanVariables == {<<"MERRA2_400", "T2M">>, <<"MERRA2_400", "PRECTOT">>}
CleanValues == Values \cup {NaN, NominalValue + 1}

\* the nominal rows: days 1..k, one variable, the nominal value; id is a
\* ghost field, the position of the row in the input
Pad(k) ==
    [i \in 1..k |-> [timestamp |-> i, variable |-> <<"MERRA2_400", "T2M">>,
                     value |-> NominalValue, id |-> i]]

FreeRows(k, n) ==
    [1..n -> [timestamp : k..(k + MaxTs - 1), variable : CleanVariables,
              value : CleanValues, id : {0}]]

WithIds(s, k) == [i \in 1..Len(s) |-> [s[i] EXCEPT !.id = k + i]]

PadLens == {0} \cup (MinFilterLen..MaxPad)

CleanInputs ==
    UNION { UNION { { Pad(k) \o WithIds(t, k) : t \in FreeRows(k, n) }
                    : n \in 0..MaxLen }
            : k \in PadLens }

InitClean ==
    /\ InitAcq
    /\ auth = FALSE
    /\ df \in CleanInputs
    /\ InitAnalyzer
    /\ data_dict = <<>>

\* df = self._clean_time_series_data(df)
CleanStep ==
    /\ cleaned < MaxCleans
    /\ prev' = df
    /\ df' = clean_time_series_data(df)
    /\ cleaned' = cleaned + 1
    /\ UNCHANGED <<acqVars, anaVars, genVars>>

SpecClean == InitClean /\ [][CleanStep]_vars

NextClient ==
    \E variable \in ClientVariables, date \in 1..MaxDate :
        ClientCall(variable, date)

SpecClient == Init /\ [][NextClient]_vars

(***************************************************************************)
(* Properties of get_multi_variable_data (specification Spec).             *)
(***************************************************************************)
\* every observation held at this point: the pair under way and the result
Observations ==
    {data_points[i] : i \in 1..Len(data_points)}
      \cup UNION { {all_data[j][2][i] : i \in 1..Len(all_data[j][2])}
                   : j \in 1..Len(all_data) }

Series(k) == all_data[Lookup(all_data, k)][2]

\* number of days of the requested range
DaysInRange == IF end_date >= StartDate THEN end_date - StartDate + 1 ELSE 0

\* min(days in range, 30, max_daily_requests)
ExpectedLen == Min(Min(DaysInRange, MaxRangeDays), max_daily_requests)

RecognizedKeys ==
    {key_of(products_variables[i]) :
        i \in {j \in 1..Len(products_variables) :
                  products_variables[j][1] \in NASA_PRODUCTS}}

\* C1: every observation whose value came from the synthetic generator is
\* tagged 'simulated', an observation tagged 'real' has a value extracted
\* from a downloaded dataset, and a (MERRA2_400, T2M) request over 10 days
\* without credentials returns 10 observations that are all 'simulated'.
C1_SyntheticIsTaggedSimulated ==
    /\ \A o \in Observations :
          /\ o.origin = "synthetic" => o.data_quality = "simulated"
          /\ o.data_quality = "real" => o.origin = "extracted"
    /\ ( /\ pc = "done"
         /\ ~auth
         /\ products_variables = << <<"MERRA2_400", "T2M">> >>
         /\ DaysInRange = 10 )
       => /\ Len(Series(<<"MERRA2_400", "T2M">>)) = 10
          /\ \A i \in 1..10 :
                Series(<<"MERRA2_400", "T2M">>)[i].data_quality = "simulated"

\* C2: for start_date <= end_date the returned mapping has exactly the keys
\* of the requested pairs whose product is in the catalogue, one entry each.
C2_ResultKeys ==
    (pc = "done" /\ StartDate <= end_date)
    => /\ Keys(all_data) = RecognizedKeys
       /\ Len(all_data) = Cardinality(RecognizedKeys)

C2_Witness ==
    /\ pc = "done"
    /\ StartDate <= end_date
    /\ Len(products_variables) = 2
    /\ products_variables[1][1] \notin NASA_PRODUCTS
    /\ products_variables[2][1] \in NASA_PRODUCTS
    /\ Len(all_data) = 1

\* C3: every returned series has exactly min(days in range, 30, 10) rows
\* after cleaning, and the fetches made for a pair never exceed that number.
C3_SeriesLength ==
    /\ \A j \in 1..Len(all_data) : Len(all_data[j][2]) = ExpectedLen
    /\ fetches <= ExpectedLen

\* a range longer than the cap, with a far-off value among the ten stored
C3_Witness ==
    /\ pc = "done"
    /\ DaysInRange > max_daily_requests
    /\ \E j \in 1..Len(all_data) :
          /\ Len(all_data[j][2]) = max_daily_requests
          /\ \E i \in 1..Len(all_data[j][2]) :
                all_data[j][2][i].value # NominalValue

\* C4: every processed date of every recognized pair has exactly one
\* observation, which carries a value; a date for which the client found
\* nothing has its observation, with a synthetic value.
C4_OneObservationPerDate ==
    /\ pc = "while" =>
          /\ Len(data_points) = days_processed
          /\ Len(data_points) = fetches
          /\ \A i \in 1..Len(data_points) :
                /\ data_points[i].timestamp = StartDate + i - 1
                /\ data_points[i].value \in Values
    /\ \A j \in 1..Len(all_data) :
          /\ Len(all_data[j][2]) = ExpectedLen
          /\ \A i \in 1..Len(all_data[j][2]) :
                /\ all_data[j][2][i].timestamp = StartDate + i - 1
                /\ all_data[j][2][i].value \in Values

\* the download of the date just processed failed, and the date has its
\* synthetic observation
C4_Witness ==
    /\ pc = "while"
    /\ data_points # <<>>
    /\ products_variables[idx][1] = "MERRA2_400"
    /\ last_fetch.path = "exhausted"
    /\ last_fetch.date = data_points[Len(data_points)].timestamp
    /\ data_points[Len(data_points)].origin = "synthetic"
    /\ data_points[Len(data_points)].value = Get(last_fetch.value)

\* C7: without credentials get_merra2_data makes no download attempt, marks
\* no date as resolved and returns a value, and the acquisition returns a
\* complete series for every recognized pair.
C7_NoCredentials ==
    ~auth =>
      /\ downloaded_dates = {}
      /\ temp_files = {}
      /\ last_fetch.n > 0 =>
            /\ last_fetch.path = "no_auth"
            /\ last_fetch.attempts = 0
            /\ last_fetch.requests = 0
            /\ ~last_fetch.raised
            /\ last_fetch.value # None
      /\ pc = "while" => Len(data_points) = days_processed
      /\ (pc = "done" /\ StartDate <= end_date) =>
            /\ Keys(all_data) = RecognizedKeys
            /\ \A j \in 1..Len(all_data) : Len(all_data[j][2]) = ExpectedLen

C7_Witness ==
    /\ ~auth
    /\ pc = "done"
    /\ last_fetch.n >= max_daily_requests
    /\ <<"MERRA2_400", "T2M">> \in Keys(all_data)
    /\ Len(Series(<<"MERRA2_400", "T2M">>)) = max_daily_requests

(***************************************************************************)
(* Properties of get_merra2_data (specification SpecClient).               *)
(***************************************************************************)
\* this step is a get_merra2_data call
IsFetch == last_fetch'.n = last_fetch.n + 1

\* C5: once a call for a date has resolved (value extracted or candidates
\* exhausted) the date is in the resolved set, every later call for a date
\* of that set returns a synthetic value without a download attempt, and
\* the set only grows.
C5_ResolvedDatesShortCircuit ==
    [][ /\ downloaded_dates \subseteq downloaded_dates'
        /\ IsFetch =>
              /\ last_fetch'.path \in {"extracted", "exhausted"}
                    => date_key(last_fetch'.date) \in downloaded_dates'
              /\ date_key(last_fetch'.date) \in downloaded_dates
                    => /\ last_fetch'.attempts = 0
                       /\ last_fetch'.requests = 0
                       /\ last_fetch'.origin = "synthetic"
                       /\ last_fetch'.value # None
                       /\ downloaded_dates' = downloaded_dates ]_vars

\* a call for a date that an earlier call resolved, with credentials
C5_Witness ==
    /\ auth
    /\ last_fetch.n >= 2
    /\ last_fetch.known
    /\ last_fetch.path = "cached"
    /\ last_fetch.origin = "synthetic"

\* C6: one call makes at most 3 download attempts over its 1-2 candidate
\* URLs; a failed or raising attempt is followed by the next candidate; when
\* all candidates are exhausted the call returns a synthetic value and does
\* not raise.
C6_AttemptsAndExhaustion ==
    last_fetch.n > 0 =>
      LET urls == generate_merra2_urls(last_fetch.date)
      IN /\ Len(urls) \in 1..MaxUrls
         /\ last_fetch.attempts <= max_download_attempts
         /\ last_fetch.attempts <= Len(urls)
         /\ ~last_fetch.raised
         /\ last_fetch.value # None
         /\ (last_fetch.auth /\ ~last_fetch.known
                /\ last_fetch.origin = "synthetic")
              => /\ last_fetch.path = "exhausted"
                 /\ last_fetch.attempts = Len(urls)
                 /\ date_key(last_fetch.date) \in downloaded_dates

\* the only candidate was downloaded and could not be opened
C6_Witness ==
    /\ last_fetch.n > 0
    /\ last_fetch.path = "exhausted"
    /\ last_fetch.env[1] = "open_error"
    /\ last_fetch.attempts = 1
    /\ last_fetch.origin = "synthetic"

\* C8: every temporary file a download of the call created has been removed
\* when the call returns.
C8_TempFilesRemoved ==
    last_fetch.created \cap temp_files = {}

(***************************************************************************)
(* Properties of _clean_time_series_data (specification SpecClean).        *)
(***************************************************************************)
\* C9: cleaning a cleaned series returns it unchanged.
C9_CleanIdempotent ==
    cleaned = 2 => df = prev

SameKey(r, q) == r.timestamp = q.timestamp /\ r.variable = q.variable

Sorted(s) ==
    \A i \in 1..Len(s) : \A j \in i..Len(s) : s[i].timestamp <= s[j].timestamp

NoDuplicates(s) ==
    \A i \in 1..Len(s) : \A j \in 1..Len(s) : SameKey(s[i], s[j]) => i = j

\* the rows of s that have a duplicate in s
Duplicated(s) ==
    {i \in 1..Len(s) : \E j \in 1..Len(s) : j # i /\ SameKey(s[i], s[j])}

\* the id of the first row, in timestamp order, of the group of s[i]
FirstOfGroup(s, i) ==
    LET t == sort_values(s, Len(s))
    IN t[CHOOSE a \in 1..Len(t) :
            /\ SameKey(t[a], s[i])
            /\ \A b \in 1..Len(t) : SameKey(t[b], s[i]) => a <= b].id

\* the rows of the output that belong to the group of s[i]
KeptOfGroup(s, i) == {a \in 1..Len(df) : SameKey(df[a], s[i])}

DistinctKeys(s) == {<<s[i].timestamp, s[i].variable>> : i \in 1..Len(s)}

\* the longest series from which the outlier filter cannot remove a row: a
\* value lies at most (n - 1) / sqrt(n) deviations from the mean of n values
FilterSafeLen ==
    CHOOSE n \in 1..100 :
        /\ (n - 1) * (n - 1) <= SigmaLimit * SigmaLimit * n
        /\ n * n > SigmaLimit * SigmaLimit * (n + 1)

\* C10 as stated: the output is in timestamp order without duplicate
\* (timestamp, variable) pairs, and of each group of duplicates exactly one
\* row, the first in sorted order, is kept.
C10_ExactlyOneKept ==
    cleaned >= 1 =>
      /\ Sorted(df)
      /\ NoDuplicates(df)
      /\ \A i \in Duplicated(prev) :
            /\ Cardinality(KeptOfGroup(prev, i)) = 1
            /\ \A a \in KeptOfGroup(prev, i) : df[a].id = FirstOfGroup(prev, i)

\* C10 amended: the output is in timestamp order without duplicate
\* (timestamp, variable) pairs; of each group of duplicates at most one row
\* is kept, and a kept row is the first of its group in sorted order;
\* exactly one is kept when the input has at most 10 distinct pairs.
C10_FirstOfGroupKept ==
    cleaned >= 1 =>
      /\ Sorted(df)
      /\ NoDuplicates(df)
      /\ \A i \in Duplicated(prev) :
            /\ Cardinality(KeptOfGroup(prev, i)) <= 1
            /\ \A a \in KeptOfGroup(prev, i) : df[a].id = FirstOfGroup(prev, i)
            /\ Cardinality(DistinctKeys(prev)) <= FilterSafeLen
                  => Cardinality(KeptOfGroup(prev, i)) = 1

\* an unsorted input with a group of duplicates whose rows differ, of which
\* the output keeps one
C10_Witness ==
    /\ cleaned = 1
    /\ ~Sorted(prev)
    /\ \E i \in Duplicated(prev) :
          /\ Cardinality(KeptOfGroup(prev, i)) = 1
          /\ \E j \in Duplicated(prev) :
                SameKey(prev[i], prev[j]) /\ prev[i].value # prev[j].value

\* the series the outlier filter receives when prev is cleaned
BeforeFilter(s) ==
    IF s = <<>> THEN s
    ELSE bfill(ffill(drop_duplicates(sort_values(s, Len(s)))))

\* every value of s lies within SigmaLimit sample standard deviations of the
\* mean of s (computed as in outlier_filter)
WithinSigma(s) ==
    \A i \in 1..Len(s) :
        (Len(s) * s[i].value - SumValues(s, 1))
            * (Len(s) * s[i].value - SumValues(s, 1)) * (Len(s) - 1)
          <= SigmaLimit * SigmaLimit * Len(s)
               * (Len(s) * SumSquares(s, 1)
                    - SumValues(s, 1) * SumValues(s, 1))

NoMissing(s) == \A i \in 1..Len(s) : s[i].value # NaN

\* C11: every value of a cleaned series of at least 6 points lies within 3
\* standard deviations of the mean of that cleaned series; on a series of
\* fewer than 6 points, or of zero standard deviation, the outlier filter
\* removes nothing.
C11_CleanedWithinThreeSigma ==
    cleaned >= 1 =>
      /\ (Len(df) > MinFilterLen /\ NoMissing(df)) => WithinSigma(df)
      /\ (\/ Len(BeforeFilter(prev)) <= MinFilterLen
          \/ Len(BeforeFilter(prev)) * SumSquares(BeforeFilter(prev), 1)
               = SumValues(BeforeFilter(prev), 1)
                   * SumValues(BeforeFilter(prev), 1))
            => df = BeforeFilter(prev)

(***************************************************************************)
(* AdvancedMultiAnalyzer.  A frame is a record [rows, columns]: rows is    *)
(* the 'value' column, row i carrying the timestamp of day i, and columns  *)
(* the set of column names.  A mapping (data_dict) is a sequence of        *)
(* <<name, frame>> pairs in insertion order.  Floats are kept in units of  *)
(* 1 / Scale, rounded down.                                                *)
(***************************************************************************)
\* fixed-point resolution of the floats of the analyzer
Scale == 100

\* a 'value' cell that holds a str instead of a number
Text == 0 - 2

\* severity_levels thresholds of WEATHER_CONDITIONS, in units of 1 / Scale
WEATHER_CONDITIONS ==
    [extreme_heat |-> [low |-> 30 * Scale, medium |-> 35 * Scale,
                       high |-> 40 * Scale],
     extreme_cold |-> [low |-> 0, medium |-> (0 - 10) * Scale,
                       high |-> (0 - 20) * Scale],
     heavy_precipitation |-> [low |-> 10 * Scale, medium |-> 25 * Scale,
                              high |-> 50 * Scale],
     strong_winds |-> [low |-> 8 * Scale, medium |-> 12 * Scale,
                       high |-> 17 * Scale],
     poor_visibility |-> [low |-> 5 * Scale, medium |-> 2 * Scale,
                          high |-> 1 * Scale],
     air_quality |-> [low |-> 35 * Scale, medium |-> 55 * Scale,
                      high |-> 75 * Scale],
     wildfire_risk |-> [low |-> (3 * Scale) \div 10,
                        medium |-> (6 * Scale) \div 10,
                        high |-> (8 * Scale) \div 10],
     uv_radiation |-> [low |-> 3 * Scale, medium |-> 6 * Scale,
                       high |-> 8 * Scale]]

\* the "conditions" lists of ACTIVITY_PRESETS
ACTIVITY_PRESETS ==
    [hiking |-> <<"extreme_heat", "heavy_precipitation", "strong_winds",
                  "uv_radiation">>,
     beach |-> <<"extreme_heat", "strong_winds", "uv_radiation">>,
     skiing |-> <<"extreme_cold", "strong_winds", "poor_visibility">>,
     cycling |-> <<"extreme_heat", "heavy_precipitation", "strong_winds",
                   "poor_visibility">>,
     photography |-> <<"poor_visibility", "heavy_precipitation">>,
     camping |-> <<"extreme_heat", "extreme_cold", "heavy_precipitation",
                   "strong_winds">>,
     fishing |-> <<"extreme_heat", "strong_winds", "poor_visibility">>,
     golfing |-> <<"extreme_heat", "heavy_precipitation", "strong_winds",
                   "uv_radiation">>,
     running |-> <<"extreme_heat", "extreme_cold", "heavy_precipitation",
                   "poor_visibility">>,
     gardening |-> <<"extreme_heat", "heavy_precipitation", "uv_radiation">>,
     boating |-> <<"strong_winds", "heavy_precipitation", "poor_visibility">>,
     festivals |-> <<"extreme_heat", "heavy_precipitation", "strong_winds">>]

\* condition_keywords of _find_relevant_variable
condition_keywords ==
    [extreme_heat |-> {"temperature", "T2M"},
     extreme_cold |-> {"temperature", "T2M"},
     heavy_precipitation |-> {"precipitation", "PRECTOT"},
     strong_winds |-> {"wind", "WS10M"},
     poor_visibility |-> {"humidity", "RH2M"},
     air_quality |-> {"pressure", "PS"},
     wildfire_risk |-> {"temperature", "T2M"},
     uv_radiation |-> {"temperature", "T2M"}]

\* the mapping keys of the model, as get_multi_variable_data builds them
\* (f"{product_key}_{variable}")
VarNames == {"MERRA2_400_T2M", "MERRA2_400_PRECTOT", "GLDAS_NOAH_Tair_f_inst"}

\* keyword.lower() in var_name.lower(), on the keys of the model
keyword_in(keyword, var_name) ==
    \/ keyword = "T2M" /\ var_name = "MERRA2_400_T2M"
    \/ keyword = "PRECTOT" /\ var_name = "MERRA2_400_PRECTOT"

\* mapping access
dict_keys(d) == {d[i][1] : i \in 1..Len(d)}
dict_get(d, k) == d[CHOOSE i \in 1..Len(d) : d[i][1] = k][2]

\* frame access
is_empty(frame) == Len(frame.rows) = 0
is_numeric(rows) == \A i \in 1..Len(rows) : rows[i] # Text
tail(rows, n) ==
    IF Len(rows) <= n THEN rows ELSE SubSeq(rows, Len(rows) - n + 1, Len(rows))

RECURSIVE Sum(_, _)
Sum(rows, i) == IF i > Len(rows) THEN 0 ELSE rows[i] + Sum(rows, i + 1)

\* Series.mean() of a numeric column
mean(rows) == (Scale * Sum(rows, 1)) \div Len(rows)

\* the largest k in lo..hi with k * k <= x
RECURSIVE isqrt_in(_, _, _)
isqrt_in(x, lo, hi) ==
    IF lo = hi THEN lo
    ELSE IF ((lo + hi + 1) \div 2) * ((lo + hi + 1) \div 2) <= x
    THEN isqrt_in(x, (lo + hi + 1) \div 2, hi)
    ELSE isqrt_in(x, lo, ((lo + hi + 1) \div 2) - 1)

\* the square root, rounded down, of a number below 2^30
sqrt(x) == isqrt_in(x, 0, 32767)

\* column names: a plain column, and the f'{var_name}{suffix}' columns
Col(name) == <<name>>
VarCol(var_name, suffix) == <<var_name, suffix>>

\* (variant: the frame itself instead of a copy of it)
df_no_copy(frame) ==
    [rows |-> frame.rows, columns |-> frame.columns, owner |-> "caller"]

\* df.copy(): a new frame with the rows and columns of df
df_copy(frame) ==
    [rows |-> frame.rows, columns |-> frame.columns, owner |-> "copy"]

\* the caller's frame after work was done on df_proc: the work shows in it
\* only if df_proc is the caller's frame
written_back(frame, df_proc) ==
    IF df_proc.owner = "caller"
    THEN [rows |-> df_proc.rows, columns |-> df_proc.columns]
    ELSE frame

\* more rows than one rolling window (line 1478)
RollingWindow == 7

\* prepare_multi_features, lines 1469-1482, on df_proc: the timestamp becomes
\* the index and the calendar, rolling and '<var_name>_value' columns are
\* added.  The rolling mean raises on a column that holds a str; what was
\* added before that stays.
add_features(var_name, df_proc) ==
    IF Len(df_proc.rows) > RollingWindow /\ ~is_numeric(df_proc.rows)
    THEN [raised |-> TRUE,
          frame |-> [df_proc EXCEPT !.columns =
                        (@ \ {Col("timestamp")})
                           \cup {Col("day_of_year"), Col("month"),
                                 Col("day_sin"), Col("day_cos")}]]
    ELSE [raised |-> FALSE,
          frame |-> [df_proc EXCEPT !.columns =
                        (@ \ {Col("timestamp")})
                           \cup {Col("day_of_year"), Col("month"),
                                 Col("day_sin"), Col("day_cos"),
                                 VarCol(var_name, "_value")}
                           \cup (IF Len(df_proc.rows) > RollingWindow
                                 THEN {VarCol(var_name, "_rolling_mean_7"),
                                       VarCol(var_name, "_rolling_std_7")}
                                 ELSE {})]]

\* the loop of prepare_multi_features (lines 1464-1488) from entry i on:
\* all_features, and the mapping as the loop leaves it
RECURSIVE features_loop(_, _, _)
RECURSIVE after_add_features(_, _, _, _)
features_loop(d, i, all_features) ==
    IF i > Len(d) THEN [all_features |-> all_features, data_dict |-> d]
    ELSE IF is_empty(d[i][2]) THEN features_loop(d, i + 1, all_features)
    ELSE after_add_features(add_features(d[i][1], df_copy(d[i][2])),
                            d, i, all_features)

after_add_features(r, d, i, all_features) ==
    features_loop([d EXCEPT ![i][2] = written_back(@, r.frame)], i + 1,
                  IF r.raised THEN all_features
                  ELSE Append(all_features, r.frame))

\* the merge loop of prepare_multi_features (lines 1493-1496) from
\* all_features[i] on; the i-th key of the mapping names the column taken
\* from all_features[i], and a frame without that column raises KeyError
RECURSIVE merge_loop(_, _, _, _)
merge_loop(keys, all_features, i, merged) ==
    IF i > Len(all_features) THEN [raised |-> FALSE, merged |-> merged]
    ELSE IF VarCol(keys[i], "_value") \notin all_features[i].columns
    THEN [raised |-> TRUE, merged |-> merged]
    ELSE merge_loop(keys, all_features, i + 1,
                    [rows |-> IF Len(all_features[i].rows) > Len(merged.rows)
                              THEN all_features[i].rows ELSE merged.rows,
                     columns |-> merged.columns
                                   \cup {VarCol(keys[i], "_value")},
                     owner |-> merged.owner])

\* the table prepare_multi_features returns once the merge gave m
\* (reset_index makes the timestamp a column again)
merged_table(m, d) ==
    [raised |-> m.raised, empty |-> FALSE,
     columns |-> m.merged.columns \cup {Col("timestamp")},
     nrows |-> Len(m.merged.rows), data_dict |-> d]

\* prepare_multi_features after its first loop gave f
merge_features(f, keys) ==
    IF Len(f.all_features) = 0
    THEN [raised |-> FALSE, empty |-> TRUE, columns |-> {}, nrows |-> 0,
          data_dict |-> f.data_dict]
    ELSE merged_table(merge_loop(keys, f.all_features, 2, f.all_features[1]),
                      f.data_dict)

\* prepare_multi_features: raised (KeyError of the merge), or the merged
\* table (empty, its columns and number of rows), and the mapping after
prepare_multi_features(d) ==
    merge_features(features_loop(d, 1, <<>>), [i \in 1..Len(d) |-> d[i][1]])

\* forecast_multi_ensemble: fewer points than this is insufficient history
MinHistory == 10
\* the regressor is attempted on a target of more points than this
RegressorMinLen == 30
\* and fitted on a feature table of more rows than this
RegressorMinRows == 10
\* the seasonal average is used from this many points on
SeasonalMinLen == 30
\* window of the moving average
MovingAverageWindow == 7
\* the 95% band is Z95 deviations wide, the 80% band Z80Num / Z80Den (1.28)
Z95 == 2
Z80Num == 32
Z80Den == 25
\* confidence_level = min(MaxConfidence, max(MinConfidence,
\*                        ConfidenceBase - int(std * ConfidenceSlope)))
MaxConfidence == 95
MinConfidence == 50
ConfidenceBase == 100
ConfidenceSlope == 10

ForecastKeys ==
    {"target_date", "ensemble_mean", "model_predictions",
     "prediction_intervals", "uncertainty", "models_used",
     "confidence_level", "timestamp"}

\* return {"error": msg}; data_dict is the mapping as the call leaves it
error_result(msg, d) ==
    [kind |-> "forecast", keys |-> {"error"}, error |-> msg, data_dict |-> d]

\* target_date.timetuple().tm_yday: dates are day numbers within one year
day_of_year(date) == date

\* (variant: the regressor is fitted on a series of any length)
random_forest_unguarded(rows, nrows, rf) ==
    IF rf = None \/ ~is_numeric(rows) THEN <<>> ELSE <<Scale * Get(rf)>>

\* The learned regressor (lines 1520-1537): the predictions it appends.  rf
\* is what fitting and predicting do: None, an exception, or Some(v), the
\* prediction v; an exception anywhere in the block is logged and skipped
random_forest(rows, nrows, rf) ==
    IF Len(rows) > RegressorMinLen
    THEN IF rf = None \/ ~is_numeric(rows) THEN <<>>
         ELSE IF nrows > RegressorMinRows THEN <<Scale * Get(rf)>>
         ELSE <<>>
    ELSE <<>>

\* (variant: every series is long enough for the average by day of year)
too_short_never(frame) == FALSE

\* "if len(df) < 30"
too_short_for_season(frame) == Len(frame.rows) < SeasonalMinLen

\* _calculate_seasonal_trend: raised, or the value; frame is the caller's
\* frame after the call.  Row i is of day i, so the average of the rows of a
\* day of the year is the value of that row.  A mean over a column that
\* holds a str raises, in the try block and again in its except block.
calculate_seasonal_trend(frame, target_date) ==
    IF too_short_for_season(frame)
    THEN IF is_empty(frame)
         THEN [raised |-> FALSE, value |-> 0, frame |-> frame]
         ELSE IF ~is_numeric(frame.rows)
         THEN [raised |-> TRUE, value |-> 0, frame |-> frame]
         ELSE [raised |-> FALSE, value |-> mean(frame.rows), frame |-> frame]
    ELSE [raised |-> ~is_numeric(frame.rows),
          value |-> IF ~is_numeric(frame.rows) THEN 0
                    ELSE IF day_of_year(target_date) \in 1..Len(frame.rows)
                    THEN Scale * frame.rows[day_of_year(target_date)]
                    ELSE mean(frame.rows),
          frame |-> written_back(frame,
                       [df_copy(frame) EXCEPT !.columns =
                           (@ \ {Col("timestamp")})
                              \cup {Col("day_of_year")}])]

\* np.mean(predictions)
RECURSIVE SumSeq(_, _)
SumSeq(p, i) == IF i > Len(p) THEN 0 ELSE p[i] + SumSeq(p, i + 1)

\* (variant: the sum divided by the number of estimators, not of predictions)
ensemble_mean_of_four(predictions) == SumSeq(predictions, 1) \div 4

ensemble_mean_of(predictions) == SumSeq(predictions, 1) \div Len(predictions)

\* np.std(predictions): the population standard deviation
RECURSIVE SumSqDev(_, _, _)
SumSqDev(p, m, i) ==
    IF i > Len(p) THEN 0
    ELSE (p[i] - m) * (p[i] - m) + SumSqDev(p, m, i + 1)

ensemble_std_of(predictions, m) ==
    sqrt(SumSqDev(predictions, m, 1) \div Len(predictions))

\* (variant: round to nearest instead of int())
confidence_level_rounded(ensemble_std) ==
    Min(MaxConfidence,
        IF ConfidenceBase - ((2 * ensemble_std * ConfidenceSlope + Scale)
                                \div (2 * Scale)) > MinConfidence
        THEN ConfidenceBase - ((2 * ensemble_std * ConfidenceSlope + Scale)
                                  \div (2 * Scale))
        ELSE MinConfidence)

\* min(95, max(50, 100 - int(ensemble_std * 10)))
confidence_level(ensemble_std) ==
    Min(MaxConfidence,
        IF ConfidenceBase - ((ensemble_std * ConfidenceSlope) \div Scale)
              > MinConfidence
        THEN ConfidenceBase - ((ensemble_std * ConfidenceSlope) \div Scale)
        ELSE MinConfidence)

\* (variant: the deviation added below and subtracted above)
interval_flipped(ensemble_mean, ensemble_std, num, den) ==
    [lower |-> Z80Den * ensemble_mean + ((Z80Den * num) \div den) * ensemble_std,
     upper |-> Z80Den * ensemble_mean - ((Z80Den * num) \div den) * ensemble_std]

\* {"lower": mean - z*std, "upper": mean + z*std} for z = num / den, in
\* units of 1 / (Scale * Z80Den)
interval(ensemble_mean, ensemble_std, num, den) ==
    [lower |-> Z80Den * ensemble_mean - ((Z80Den * num) \div den) * ensemble_std,
     upper |-> Z80Den * ensemble_mean + ((Z80Den * num) \div den) * ensemble_std]

\* the dict of lines 1554-1566
forecast_dict(target_date, predictions, ensemble_mean, ensemble_std, d) ==
    [kind |-> "forecast", keys |-> ForecastKeys,
     target_date |-> target_date,
     ensemble_mean |-> ensemble_mean,
     model_predictions |-> predictions,
     interval_95 |-> interval(ensemble_mean, ensemble_std, Z95, 1),
     interval_80 |-> interval(ensemble_mean, ensemble_std, Z80Num, Z80Den),
     uncertainty |-> ensemble_std,
     models_used |-> Len(predictions),
     confidence_level |-> confidence_level(ensemble_std),
     data_dict |-> d]

\* lines 1548-1566 once ensemble_mean is known
with_mean(target_date, predictions, ensemble_mean, d) ==
    forecast_dict(target_date, predictions, ensemble_mean,
                  ensemble_std_of(predictions, ensemble_mean), d)

\* lines 1548-1566
combine(target_date, predictions, d) ==
    IF Len(predictions) = 0
    THEN error_result("All forecasting methods failed", d)
    ELSE with_mean(target_date, predictions, ensemble_mean_of(predictions), d)

\* the mapping with the frame of key k replaced
dict_put(d, k, frame) ==
    [i \in 1..Len(d) |-> IF d[i][1] = k THEN <<k, frame>> ELSE d[i]]

\* lines 1539-1570 once the regressor gave rf_predictions and the seasonal
\* estimator s: persistence is the last value, the moving average the mean
\* of the last 7; d is the mapping after the seasonal estimator.  Line 1539
\* is not inside a try of its own: an exception of the seasonal estimator,
\* or of the mean of the last 7, reaches the except of line 1568, and the
\* error is str(e), written here as the name of the exception
after_seasonal(s, rf_predictions, rows, target_date, d) ==
    IF s.raised
    THEN error_result("TypeError", d)
    ELSE IF ~is_numeric(tail(rows, MovingAverageWindow))
    THEN error_result("TypeError", d)
    ELSE combine(target_date,
                 rf_predictions
                   \o <<s.value, Scale * rows[Len(rows)],
                        mean(tail(rows, MovingAverageWindow))>>,
                 d)

\* the seasonal estimator on the target's frame, handed on with the mapping
\* it leaves
seasonal_step(s, rf_predictions, d, target_variable, target_date) ==
    after_seasonal(s, rf_predictions, dict_get(d, target_variable).rows,
                   target_date, dict_put(d, target_variable, s.frame))

\* forecast_multi_ensemble after prepare_multi_features returned features
\* (lines 1508-1570)
after_features(features, target_variable, target_date, rf) ==
    IF features.raised THEN error_result("KeyError", features.data_dict)
    ELSE IF features.empty
    THEN error_result("Feature preparation failed", features.data_dict)
    ELSE IF Len(dict_get(features.data_dict, target_variable).rows) < MinHistory
    THEN error_result("Insufficient historical data", features.data_dict)
    ELSE seasonal_step(
             calculate_seasonal_trend(
                 dict_get(features.data_dict, target_variable), target_date),
             random_forest(dict_get(features.data_dict, target_variable).rows,
                           features.nrows, rf),
             features.data_dict, target_variable, target_date)

\* forecast_multi_ensemble
forecast_multi_ensemble(d, target_variable, target_date, rf) ==
    IF target_variable \notin dict_keys(d)
    THEN error_result("Target variable data not available", d)
    ELSE IF is_empty(dict_get(d, target_variable))
    THEN error_result("Target variable data not available", d)
    ELSE after_features(prepare_multi_features(d), target_variable,
                        target_date, rf)

\* analyze_comprehensive_risks: recent_data = historical_data.tail(30)
RecentWindow == 30
\* forecast_trend = ... * TrendFactor, clamped to -MaxAdjustment..MaxAdjustment
TrendFactor == 20
MaxAdjustment == 15
\* probabilities are percentages
Percent == 100

Max(a, b) == IF a > b THEN a ELSE b
Abs(a) == IF a < 0 THEN 0 - a ELSE a

\* round(x, 1), in tenths: the nearest tenth, a tie going to the even one
round1(x) ==
    IF 2 * ((10 * x) % Scale) > Scale THEN ((10 * x) \div Scale) + 1
    ELSE IF 2 * ((10 * x) % Scale) < Scale THEN (10 * x) \div Scale
    ELSE IF ((10 * x) \div Scale) % 2 = 0 THEN (10 * x) \div Scale
    ELSE ((10 * x) \div Scale) + 1

\* get_activity_thresholds: for each condition of the activity, in order, the
\* 'medium' threshold and the comparison; an activity that is not a key of
\* ACTIVITY_PRESETS raises KeyError (line 1699)
get_activity_thresholds(activity) ==
    IF activity \notin DOMAIN ACTIVITY_PRESETS
    THEN [raised |-> TRUE, thresholds |-> <<>>]
    ELSE [raised |-> FALSE,
          thresholds |->
             [i \in 1..Len(ACTIVITY_PRESETS[activity]) |->
                [condition |-> ACTIVITY_PRESETS[activity][i],
                 threshold |->
                    WEATHER_CONDITIONS[ACTIVITY_PRESETS[activity][i]].medium,
                 type |-> IF ACTIVITY_PRESETS[activity][i] = "extreme_cold"
                          THEN "below" ELSE "above"]]]

\* (variant: the last key when no key contains a keyword)
find_relevant_variable_last(condition_id, d) ==
    IF \E i \in 1..Len(d) : \E keyword \in condition_keywords[condition_id] :
           keyword_in(keyword, d[i][1])
    THEN d[CHOOSE i \in 1..Len(d) :
             /\ \E keyword \in condition_keywords[condition_id] :
                   keyword_in(keyword, d[i][1])
             /\ \A j \in 1..(i - 1) :
                   ~\E keyword \in condition_keywords[condition_id] :
                       keyword_in(keyword, d[j][1])][1]
    ELSE d[Len(d)][1]

\* _find_relevant_variable: the first key that contains a keyword of the
\* condition, else the first key
find_relevant_variable(condition_id, d) ==
    IF \E i \in 1..Len(d) : \E keyword \in condition_keywords[condition_id] :
           keyword_in(keyword, d[i][1])
    THEN d[CHOOSE i \in 1..Len(d) :
             /\ \E keyword \in condition_keywords[condition_id] :
                   keyword_in(keyword, d[i][1])
             /\ \A j \in 1..(i - 1) :
                   ~\E keyword \in condition_keywords[condition_id] :
                       keyword_in(keyword, d[j][1])][1]
    ELSE d[1][1]

\* (variant: the comparisons exchanged)
satisfies_flipped(value, threshold, type) ==
    IF type = "above" THEN Scale * value < threshold
    ELSE Scale * value > threshold

\* recent_data['value'] > threshold, or < threshold
satisfies(value, threshold, type) ==
    IF type = "above" THEN Scale * value > threshold
    ELSE Scale * value < threshold

\* lines 1634-1640: the percentage of the recent rows beyond the threshold
base_probability(recent, threshold, type) ==
    IF Len(recent) = 0 THEN 0
    ELSE (Percent * Scale
            * Cardinality({i \in 1..Len(recent) :
                              satisfies(recent[i], threshold, type)}))
           \div Len(recent)

\* (variant: the trend is not clamped)
clamp_adjustment_off(forecast_trend) == forecast_trend

\* max(-15, min(15, forecast_trend))
clamp_adjustment(forecast_trend) ==
    Max((0 - MaxAdjustment) * Scale, Min(MaxAdjustment * Scale, forecast_trend))

\* lines 1643-1647
forecast_adjustment(forecast, rows) ==
    IF "ensemble_mean" \in forecast.keys
    THEN clamp_adjustment(
             ((forecast.ensemble_mean - mean(rows)) * TrendFactor * Scale)
                \div Max(Scale, Abs(mean(rows))))
    ELSE 0

\* (variant: the operating threshold must be strictly beyond the level's)
reaches_strictly(threshold, level_threshold, type) ==
    IF type = "above" THEN threshold > level_threshold
    ELSE threshold < level_threshold

\* threshold >= level_config["threshold"] for 'above', <= for 'below'
reaches(threshold, level_threshold, type) ==
    IF type = "above" THEN threshold >= level_threshold
    ELSE threshold <= level_threshold

\* lines 1651-1656: "low", then the last of low, medium, high whose
\* threshold the operating threshold reaches
severity_of(condition_id, threshold, type) ==
    IF reaches(threshold, WEATHER_CONDITIONS[condition_id].high, type)
    THEN "high"
    ELSE IF reaches(threshold, WEATHER_CONDITIONS[condition_id].medium, type)
    THEN "medium"
    ELSE "low"

\* (variant: the tier follows the combined probability)
severity_level_by_probability(config, probability, adjustment) ==
    IF 2 * (probability + adjustment) > Percent * Scale THEN "high" ELSE "low"

\* severity_level as the loop of lines 1651-1656 leaves it: the loop stands
\* after probability and forecast_adjustment are computed and reads neither
severity_level(config, probability, adjustment) ==
    severity_of(config.condition, config.threshold, config.type)

\* risks[condition_id] = {...} (lines 1649-1669); the fields are in tenths,
\* as round(., 1) leaves them; raw is a ghost field, the three values before
\* rounding, and forecast the dict the forecaster returned
risk_entry(config, relevant_var, probability, adjustment, forecast) ==
    [condition_id |-> config.condition,
     probability |-> round1(Min(Percent * Scale,
                                Max(0, probability + adjustment))),
     base_probability |-> round1(probability),
     forecast_adjustment |-> round1(adjustment),
     severity |-> severity_level(config, probability, adjustment),
     relevant_variable |-> relevant_var,
     raw |-> [probability |-> Min(Percent * Scale,
                                  Max(0, probability + adjustment)),
              base_probability |-> probability,
              forecast_adjustment |-> adjustment],
     forecast_keys |-> forecast.keys]

\* the body of the loop once the forecaster returned: the mean of a column
\* that holds a str raises, and the except of line 1671 skips the hazard
after_forecast(config, relevant_var, rows, forecast) ==
    IF "ensemble_mean" \in forecast.keys /\ ~is_numeric(rows)
    THEN [entry |-> None, data_dict |-> forecast.data_dict]
    ELSE [entry |-> Some(risk_entry(config, relevant_var,
                       base_probability(tail(rows, RecentWindow),
                                        config.threshold, config.type),
                       forecast_adjustment(forecast, rows), forecast)),
          data_dict |-> forecast.data_dict]

\* the body of the loop for one condition once the relevant variable is
\* found (lines 1628-1673): comparing a str with the threshold raises, and
\* the except of line 1671 skips the hazard
evaluate_with(config, relevant_var, d, target_date, rf) ==
    IF ~is_numeric(tail(dict_get(d, relevant_var).rows, RecentWindow))
    THEN [entry |-> None, data_dict |-> d]
    ELSE after_forecast(config, relevant_var, dict_get(d, relevant_var).rows,
             forecast_multi_ensemble(d, relevant_var, target_date,
                                     rf[relevant_var]))

\* the body of the loop for one condition (lines 1619-1673)
evaluate_condition(config, d, target_date, rf) ==
    IF config.condition \notin DOMAIN WEATHER_CONDITIONS
    THEN [entry |-> None, data_dict |-> d]
    ELSE evaluate_with(config, find_relevant_variable(config.condition, d),
                       d, target_date, rf)

\* the loop over the thresholds from thresholds[i] on
RECURSIVE risks_loop(_, _, _, _, _, _)
RECURSIVE after_condition(_, _, _, _, _, _)
risks_loop(thresholds, i, d, target_date, rf, risks) ==
    IF i > Len(thresholds)
    THEN [kind |-> "risks", raised |-> FALSE, risks |-> risks, data_dict |-> d]
    ELSE after_condition(evaluate_condition(thresholds[i], d, target_date, rf),
                         thresholds, i, target_date, rf, risks)

after_condition(r, thresholds, i, target_date, rf, risks) ==
    risks_loop(thresholds, i + 1, r.data_dict, target_date, rf,
               IF r.entry = None THEN risks ELSE Append(risks, Get(r.entry)))

\* analyze_comprehensive_risks once the thresholds are known; a KeyError of
\* get_activity_thresholds (line 1616 is outside the try) leaves the call
with_thresholds(t, d, target_date, rf) ==
    IF t.raised
    THEN [kind |-> "risks", raised |-> TRUE, risks |-> <<>>, data_dict |-> d]
    ELSE risks_loop(t.thresholds, 1, d, target_date, rf, <<>>)

\* analyze_comprehensive_risks: risks is the returned dict, one entry per
\* assessed condition in insertion order
analyze_comprehensive_risks(d, target_date, activity, rf) ==
    IF Len(d) = 0
    THEN [kind |-> "risks", raised |-> FALSE, risks |-> <<>>, data_dict |-> d]
    ELSE with_thresholds(get_activity_thresholds(activity), d, target_date, rf)

(***************************************************************************)
(* Calls of forecast_multi_ensemble and analyze_comprehensive_risks on one *)
(* analyzer and one mapping.                                               *)
(***************************************************************************)
\* calls made on the analyzer
MaxAnalyzerCalls == 2

\* the values of the series, in the units of the thresholds
AnalyzerValues == {0 - 15, 0 - 5, 20}
\* the lengths of the non-empty series
FrameLens == {5, 10, 11, 30, 31}
\* how many rows at the end of a series differ from the rows before them
TailLens == {0, 1, MovingAverageWindow}
\* the target dates: a day inside every series, and a day after all of them
TargetDates == {3, 40}
\* the activities: two of ACTIVITY_PRESETS and one that is not in it
Activities == {"skiing", "camping", "surfing"}

Rep(n, v) == [i \in 1..n |-> v]

BaseColumns == {Col("timestamp"), Col("value"), Col("variable")}

Frame(rows) == [rows |-> rows, columns |-> BaseColumns]

EmptyFrame == Frame(<<>>)

NumericFrames ==
    {Frame(Rep(n - m, v) \o Rep(m, w)) :
        n \in FrameLens, m \in TailLens, v \in AnalyzerValues,
        w \in AnalyzerValues}

\* frames whose first 'value' cell holds a str
TextFrames ==
    {Frame(<<Text>> \o Rep(n - 1, v)) : n \in FrameLens, v \in AnalyzerValues}

Frames == NumericFrames \cup TextFrames \cup {EmptyFrame}

ConstantFrames == {Frame(Rep(n, v)) : n \in FrameLens, v \in AnalyzerValues}

\* the frames of a second variable
CompanionFrames == {EmptyFrame, Frame(Rep(11, 20))}

\* the mappings handed to the analyzer: none, one variable, two variables in
\* both orders, and three variables of which the first has no rows
Mappings ==
    {<<>>}
    \cup {<<<<"MERRA2_400_T2M", f>>>> : f \in Frames}
    \cup {<<<<"GLDAS_NOAH_Tair_f_inst", f>>>> : f \in ConstantFrames}
    \cup {<<<<"MERRA2_400_T2M", f>>, <<"MERRA2_400_PRECTOT", g>>>> :
             f \in Frames, g \in CompanionFrames}
    \cup {<<<<"MERRA2_400_PRECTOT", g>>, <<"MERRA2_400_T2M", f>>>> :
             f \in Frames, g \in CompanionFrames}
    \cup {<<<<"MERRA2_400_PRECTOT", EmptyFrame>>, <<"MERRA2_400_T2M", f>>,
            <<"GLDAS_NOAH_Tair_f_inst", g>>>> :
             f \in ConstantFrames, g \in CompanionFrames}

\* what the regressor can do on the series of key k: raise, or predict a
\* value of the series it was fitted on
RFOutcomes(d, k) ==
    IF k \in dict_keys(d)
    THEN IF Len(dict_get(d, k).rows) > RegressorMinLen
            /\ is_numeric(dict_get(d, k).rows)
         THEN {None} \cup {Some(dict_get(d, k).rows[i]) :
                             i \in 1..Len(dict_get(d, k).rows)}
         ELSE {None}
    ELSE {None}

RFEnvs(d) ==
    {rf \in [VarNames -> {None} \cup {Some(v) : v \in AnalyzerValues}] :
        \A k \in VarNames : rf[k] \in RFOutcomes(d, k)}

\* the state after a call returned ret
AnalyzerReturn(call, ret) ==
    /\ result' = [call |-> call, ret |-> [ret EXCEPT !.data_dict = <<>>],
                  before |-> data_dict]
    /\ prev_result' = result
    /\ data_dict' = ret.data_dict
    /\ calls' = calls + 1

\* analyzer.forecast_multi_ensemble(data_dict, target_variable, target_date)
Forecast(target_variable, target_date) ==
    /\ calls < MaxAnalyzerCalls
    /\ \E rf \in RFOutcomes(data_dict, target_variable) :
          AnalyzerReturn([name |-> "forecast", target |-> target_variable,
                          date |-> target_date, rf |-> rf],
                         forecast_multi_ensemble(data_dict, target_variable,
                                                 target_date, rf))
    /\ UNCHANGED <<models, forecast_cache>>
    /\ UNCHANGED <<acqVars, cleanVars, genVars>>

\* analyzer.analyze_comprehensive_risks(data_dict, target_date, activity)
Risks(target_date, activity) ==
    /\ calls < MaxAnalyzerCalls
    /\ \E rf \in RFEnvs(data_dict) :
          AnalyzerReturn([name |-> "risks", activity |-> activity,
                          date |-> target_date, rf |-> rf],
                         analyze_comprehensive_risks(data_dict, target_date,
                                                     activity, rf))
    /\ UNCHANGED <<models, forecast_cache>>
    /\ UNCHANGED <<acqVars, cleanVars, genVars>>

\* analyzer.prepare_multi_features(data_dict); the KeyError of its merge
\* loop is not caught inside it
Features ==
    /\ calls < MaxAnalyzerCalls
    /\ AnalyzerReturn([name |-> "features"], prepare_multi_features(data_dict))
    /\ UNCHANGED <<models, forecast_cache>>
    /\ UNCHANGED <<acqVars, cleanVars, genVars>>

InitCalls ==
    /\ InitAcq
    /\ auth = FALSE
    /\ df = <<>>
    /\ InitAnalyzer
    /\ data_dict \in Mappings

NextAnalyzer ==
    \/ \E target_variable \in VarNames, target_date \in TargetDates :
          Forecast(target_variable, target_date)
    \/ \E target_date \in TargetDates, activity \in Activities :
          Risks(target_date, activity)
    \/ Features

SpecAnalyzer == InitCalls /\ [][NextAnalyzer]_vars

(***************************************************************************)
(* Properties of forecast_multi_ensemble and analyze_comprehensive_risks   *)
(* (specification SpecAnalyzer).                                           *)
(***************************************************************************)
IsForecast == result # NoResult /\ result.call.name = "forecast"

IsRisks == result # NoResult /\ result.call.name = "risks"

\* the target of the latest forecast call is a key of the mapping
TargetPresent == result.call.target \in dict_keys(result.before)

\* the rows of the target's series in the latest forecast call
TargetRows == dict_get(result.before, result.call.target).rows

Succeeded == IsForecast /\ "ensemble_mean" \in result.ret.keys

\* C12: forecast_multi_ensemble returns the error 'Target variable data not
\* available' when the target is not in the mapping or its series is empty,
\* and 'Insufficient historical data' when its series has fewer than 10
\* points; in both cases the result holds the error and no forecast field.
C12_TargetErrors ==
    IsForecast =>
      /\ (~TargetPresent \/ (TargetPresent /\ Len(TargetRows) = 0))
            => /\ result.ret.keys = {"error"}
               /\ result.ret.error = "Target variable data not available"
      /\ (TargetPresent /\ Len(TargetRows) > 0 /\ Len(TargetRows) < MinHistory)
            => /\ result.ret.keys = {"error"}
               /\ result.ret.error = "Insufficient historical data"

\* the errors forecast_multi_ensemble returns before it comes to the
\* estimators ("KeyError" is the one of the merge of prepare_multi_features)
EarlyErrors ==
    {"Target variable data not available", "KeyError",
     "Feature preparation failed", "Insufficient historical data"}

\* the latest forecast call came to the estimators (line 1518)
ReachedEstimators ==
    /\ IsForecast
    /\ ("error" \in result.ret.keys => result.ret.error \notin EarlyErrors)

\* C13: each of the four estimators is optional: with the persistence
\* estimator able to give its value (the last value of the target is a
\* number) the forecast is produced, whatever the other estimators do, and a
\* forecast that fails at the estimators fails with 'All forecasting methods
\* failed'.
C13_EstimatorsOptional ==
    ReachedEstimators =>
      /\ TargetRows[Len(TargetRows)] # Text => Succeeded
      /\ "error" \in result.ret.keys
            => result.ret.error = "All forecasting methods failed"

\* C14: in every successful forecast the 95% band is ensemble_mean -/+ 2
\* uncertainty, the 80% band ensemble_mean -/+ 1.28 uncertainty, and
\* interval_95.lower <= interval_80.lower <= ensemble_mean
\* <= interval_80.upper <= interval_95.upper  (bands in units of
\* 1 / (Scale * Z80Den)).
C14_IntervalOrdering ==
    Succeeded =>
      /\ result.ret.interval_95.lower
            = Z80Den * (result.ret.ensemble_mean - Z95 * result.ret.uncertainty)
      /\ result.ret.interval_95.upper
            = Z80Den * (result.ret.ensemble_mean + Z95 * result.ret.uncertainty)
      /\ result.ret.interval_80.lower
            = Z80Den * result.ret.ensemble_mean
                - Z80Num * result.ret.uncertainty
      /\ result.ret.interval_80.upper
            = Z80Den * result.ret.ensemble_mean
                + Z80Num * result.ret.uncertainty
      /\ result.ret.interval_95.lower <= result.ret.interval_80.lower
      /\ result.ret.interval_80.lower <= Z80Den * result.ret.ensemble_mean
      /\ Z80Den * result.ret.ensemble_mean <= result.ret.interval_80.upper
      /\ result.ret.interval_80.upper <= result.ret.interval_95.upper

\* a successful forecast of four components that disagree
C14_Witness ==
    /\ Succeeded
    /\ result.ret.models_used = 4
    /\ result.ret.uncertainty > 0
    /\ result.ret.interval_95.lower < result.ret.interval_80.lower

\* the call before the latest was a successful forecast too
PrevSucceeded ==
    /\ prev_result # NoResult
    /\ prev_result.call.name = "forecast"
    /\ "ensemble_mean" \in prev_result.ret.keys

\* confidence does not rise with the uncertainty, over the two latest calls
ConfidenceMonotone ==
    (Succeeded /\ PrevSucceeded) =>
      /\ prev_result.ret.uncertainty <= result.ret.uncertainty
            => prev_result.ret.confidence_level >= result.ret.confidence_level
      /\ prev_result.ret.uncertainty >= result.ret.uncertainty
            => prev_result.ret.confidence_level <= result.ret.confidence_level

\* C15 as stated: confidence_level is an integer of 50..95, equal to
\* clamp(100 - 10 * uncertainty, 50, 95), and does not rise with the
\* uncertainty.
C15_ConfidenceIsClamp ==
    /\ Succeeded =>
         /\ result.ret.confidence_level \in MinConfidence..MaxConfidence
         /\ Scale * result.ret.confidence_level
               = Min(MaxConfidence * Scale,
                     Max(MinConfidence * Scale,
                         ConfidenceBase * Scale
                           - ConfidenceSlope * result.ret.uncertainty))
    /\ ConfidenceMonotone

\* C15 amended: confidence_level is an integer of 50..95, equal to
\* clamp(100 - trunc(10 * uncertainty), 50, 95), and does not rise with the
\* uncertainty.
C15_ConfidenceIsTruncatedClamp ==
    /\ Succeeded =>
         /\ result.ret.confidence_level \in MinConfidence..MaxConfidence
         /\ result.ret.confidence_level
               = Min(MaxConfidence,
                     Max(MinConfidence,
                         ConfidenceBase
                           - ((ConfidenceSlope * result.ret.uncertainty)
                                 \div Scale)))
    /\ ConfidenceMonotone

\* two successful forecasts of different uncertainty, the latest with a
\* confidence inside the range and an uncertainty that is no whole tenth
C15_Witness ==
    /\ Succeeded
    /\ PrevSucceeded
    /\ prev_result.ret.uncertainty < result.ret.uncertainty
    /\ prev_result.ret.confidence_level > result.ret.confidence_level
    /\ result.ret.confidence_level > MinConfidence
    /\ result.ret.confidence_level < MaxConfidence
    /\ (ConfidenceSlope * result.ret.uncertainty) % Scale # 0

\* the components of the latest forecast
Components == result.ret.model_predictions

\* the rows are all the same number
Constant(rows) ==
    /\ is_numeric(rows)
    /\ \A i \in 1..Len(rows) : rows[i] = rows[1]

\* C16: the point estimate of a successful forecast is the arithmetic mean of
\* its components (to the resolution 1 / Scale) and lies between the least
\* and the greatest of them; on a target series of at least 10 points that
\* are all v, persistence and moving average (the last two components) are
\* v, the point estimate is v and the uncertainty is 0.
C16_PointEstimateIsMean ==
    Succeeded =>
      /\ Len(Components) * result.ret.ensemble_mean <= SumSeq(Components, 1)
      /\ SumSeq(Components, 1) < Len(Components) * (result.ret.ensemble_mean + 1)
      /\ \E i \in 1..Len(Components) :
            Components[i] <= result.ret.ensemble_mean
      /\ \E i \in 1..Len(Components) :
            Components[i] >= result.ret.ensemble_mean
      /\ (Len(TargetRows) >= MinHistory /\ Constant(TargetRows))
            => /\ Components[Len(Components) - 1] = Scale * TargetRows[1]
               /\ Components[Len(Components)] = Scale * TargetRows[1]
               /\ result.ret.ensemble_mean = Scale * TargetRows[1]
               /\ result.ret.uncertainty = 0

\* a successful forecast on a series of 11 equal points
C16_Witness ==
    /\ Succeeded
    /\ Len(TargetRows) = MinHistory + 1
    /\ Constant(TargetRows)
    /\ result.ret.models_used = 3
    /\ result.ret.ensemble_mean = Scale * TargetRows[1]

\* the risk dict of the latest call has an entry for the condition
HasEntry(condition_id) ==
    \E i \in 1..Len(result.ret.risks) :
        result.ret.risks[i].condition_id = condition_id

EntryOf(condition_id) ==
    result.ret.risks[CHOOSE i \in 1..Len(result.ret.risks) :
                        result.ret.risks[i].condition_id = condition_id]

\* the trailing 30 values of the series the latest risk call used for the
\* condition
RecentOf(condition_id) ==
    tail(dict_get(result.before,
                  find_relevant_variable(condition_id, result.before)).rows,
         RecentWindow)

\* the latest call assessed the risks of skiing on a temperature series
\* whose trailing 30 values are all below limit (in units of 1 / Scale)
SkiingBelow(limit) ==
    /\ IsRisks
    /\ result.call.activity = "skiing"
    /\ "MERRA2_400_T2M" \in dict_keys(result.before)
    /\ Len(RecentOf("extreme_cold")) > 0
    /\ \A i \in 1..Len(RecentOf("extreme_cold")) :
          /\ RecentOf("extreme_cold")[i] # Text
          /\ Scale * RecentOf("extreme_cold")[i] < limit

\* C17 as stated: for skiing and a temperature series whose trailing 30
\* values are all below 0, the assessment of extreme_cold has
\* base_probability 100.0.
C17_AllBelowZero ==
    SkiingBelow(0) =>
      /\ HasEntry("extreme_cold")
      /\ EntryOf("extreme_cold").base_probability = 10 * Percent

\* C17 amended: for skiing and a temperature series whose trailing 30 values
\* are all below -10, the 'medium' threshold of extreme_cold, the assessment
\* of extreme_cold has base_probability 100.0.
C17_AllBelowMedium ==
    SkiingBelow(WEATHER_CONDITIONS["extreme_cold"].medium) =>
      /\ HasEntry("extreme_cold")
      /\ EntryOf("extreme_cold").base_probability = 10 * Percent

\* skiing assessed on a series of more than 30 values, all below -10
C17_Witness ==
    /\ SkiingBelow(WEATHER_CONDITIONS["extreme_cold"].medium)
    /\ Len(dict_get(result.before, "MERRA2_400_T2M").rows) > RecentWindow
    /\ HasEntry("extreme_cold")
    /\ EntryOf("extreme_cold").base_probability = 10 * Percent
    /\ EntryOf("extreme_cold").relevant_variable = "MERRA2_400_T2M"

Entries == {result.ret.risks[i] : i \in 1..Len(result.ret.risks)}

\* the comparison of the condition
TypeOf(condition_id) ==
    IF condition_id = "extreme_cold" THEN "below" ELSE "above"

\* how many of the trailing 30 values are beyond the 'medium' threshold
CountBeyond(condition_id) ==
    Cardinality({i \in 1..Len(RecentOf(condition_id)) :
        IF TypeOf(condition_id) = "above"
        THEN Scale * RecentOf(condition_id)[i]
                > WEATHER_CONDITIONS[condition_id].medium
        ELSE Scale * RecentOf(condition_id)[i]
                < WEATHER_CONDITIONS[condition_id].medium})

\* x is the percentage of the trailing values beyond the threshold, to the
\* resolution 1 / Scale
IsPercentage(x, condition_id) ==
    IF Len(RecentOf(condition_id)) = 0 THEN x = 0
    ELSE /\ x * Len(RecentOf(condition_id))
              <= Percent * Scale * CountBeyond(condition_id)
         /\ Percent * Scale * CountBeyond(condition_id)
              < (x + 1) * Len(RecentOf(condition_id))

\* clamp(x, 0, 100) in tenths
ClampTenths(x) == Min(10 * Percent, Max(0, x))

\* the parts of C18 on base_probability and forecast_adjustment
BaseAndAdjustment(e) ==
    /\ IsPercentage(e.raw.base_probability, e.condition_id)
    /\ e.base_probability = round1(e.raw.base_probability)
    /\ e.base_probability \in 0..(10 * Percent)
    /\ e.forecast_adjustment \in ((0 - 10) * MaxAdjustment)..(10 * MaxAdjustment)
    /\ "error" \in e.forecast_keys => e.forecast_adjustment = 0

\* C18 as stated: in every assessment base_probability is the percentage of
\* the trailing 30 observations beyond the threshold (to one decimal) and
\* lies in 0..100, forecast_adjustment lies in -15..15 and is 0 when the
\* forecast returned an error, and probability is
\* clamp(base_probability + forecast_adjustment, 0, 100).
C18_ProbabilityIsClampedSum ==
    (IsRisks /\ ~result.ret.raised) =>
      \A e \in Entries :
         /\ BaseAndAdjustment(e)
         /\ e.probability
               = ClampTenths(e.base_probability + e.forecast_adjustment)

\* C18 amended: base_probability and forecast_adjustment as stated;
\* probability is clamp(base + adjustment, 0, 100) of the values before
\* rounding, rounded to one decimal, so it is within 0.1 of
\* clamp(base_probability + forecast_adjustment, 0, 100) of the reported
\* values.
C18_ProbabilityIsRoundedClamp ==
    (IsRisks /\ ~result.ret.raised) =>
      \A e \in Entries :
         /\ BaseAndAdjustment(e)
         /\ e.raw.forecast_adjustment
               \in ((0 - MaxAdjustment) * Scale)..(MaxAdjustment * Scale)
         /\ e.forecast_adjustment = round1(e.raw.forecast_adjustment)
         /\ e.raw.probability
               = Min(Percent * Scale,
                     Max(0, e.raw.base_probability + e.raw.forecast_adjustment))
         /\ e.probability = round1(e.raw.probability)
         /\ e.probability
              - ClampTenths(e.base_probability + e.forecast_adjustment)
                 \in {0 - 1, 0, 1}

\* an assessment whose forecast succeeded, with an adjustment at its bound,
\* next to one whose probability is clamped
C18_Witness ==
    /\ IsRisks
    /\ ~result.ret.raised
    /\ \E e \in Entries :
          /\ "ensemble_mean" \in e.forecast_keys
          /\ e.forecast_adjustment = 10 * MaxAdjustment
          /\ e.base_probability > 0
          /\ e.probability = 10 * Percent
    /\ \E e \in Entries :
          /\ e.base_probability = 0
          /\ e.forecast_adjustment > 0
          /\ e.probability = e.forecast_adjustment

\* C19: forecast_multi_ensemble and analyze_comprehensive_risks return a
\* structured result for every activity identifier and every mapping: no
\* exception leaves them, an activity that is not in the activity table
\* included, and a condition whose evaluation fails on the series is in the
\* result (as an error marker).
C19_NoExceptionCrosses ==
    /\ IsForecast =>
          \/ result.ret.keys = {"error"}
          \/ result.ret.keys = ForecastKeys
    /\ IsRisks =>
          /\ ~result.ret.raised
          /\ (Len(result.before) > 0
                /\ result.call.activity \in DOMAIN ACTIVITY_PRESETS)
               => \A i \in 1..Len(ACTIVITY_PRESETS[result.call.activity]) :
                     ~is_numeric(RecentOf(ACTIVITY_PRESETS[result.call.activity][i]))
                        => HasEntry(ACTIVITY_PRESETS[result.call.activity][i])

\* C20: forecast_multi_ensemble and analyze_comprehensive_risks leave every
\* series of the mapping as it was (same rows, same columns), and the
\* analyzer's forecast_cache and models are empty after any sequence of
\* calls.
C20_InputsUnchanged ==
    calls >= 1 =>
      /\ data_dict = result.before
      /\ models = <<>>
      /\ forecast_cache = <<>>

\* a successful forecast on a series long enough for the seasonal average,
\* after a risk call that gave assessments on the same mapping
C20_Witness ==
    /\ calls = MaxAnalyzerCalls
    /\ Succeeded
    /\ Len(TargetRows) >= SeasonalMinLen
    /\ prev_result.call.name = "risks"
    /\ Len(prev_result.ret.risks) > 0
    /\ data_dict = prev_result.before

(***************************************************************************)
(* MultiVariableDataManager._generate_enhanced_simulated_value, computed   *)
(* from its arguments and its random draws.  Floats are in units of        *)
(* 1 / Scale; a name is the sequence of its characters; a timestamp is     *)
(* its day of the year.  The longitude is not used by the function.        *)
(***************************************************************************)
UpperCase ==
    <<"A", "B", "C", "D", "E", "F", "G", "H", "I", "J", "K", "L", "M",
      "N", "O", "P", "Q", "R", "S", "T", "U", "V", "W", "X", "Y", "Z">>
LowerCase ==
    <<"a", "b", "c", "d", "e", "f", "g", "h", "i", "j", "k", "l", "m",
      "n", "o", "p", "q", "r", "s", "t", "u", "v", "w", "x", "y", "z">>

\* str.lower()
lower(name) ==
    [i \in 1..Len(name) |->
        IF \E k \in 1..Len(UpperCase) : UpperCase[k] = name[i]
        THEN LowerCase[CHOOSE k \in 1..Len(UpperCase) : UpperCase[k] = name[i]]
        ELSE name[i]]

\* "pattern in name" for two strings
contains(name, pattern) ==
    \E i \in 0..(Len(name) - Len(pattern)) :
        SubSeq(name, i + 1, i + Len(pattern)) = pattern

\* the patterns of the dispatch (lines 1334-1345)
Pattern_temperature == <<"t", "e", "m", "p", "e", "r", "a", "t", "u", "r", "e">>
Pattern_T2M == <<"T", "2", "M">>
Pattern_precipitation == <<"p", "r", "e", "c", "i", "p", "i", "t", "a", "t", "i", "o", "n">>
Pattern_humidity == <<"h", "u", "m", "i", "d", "i", "t", "y">>
Pattern_RH == <<"R", "H">>
Pattern_pressure == <<"p", "r", "e", "s", "s", "u", "r", "e">>
Pattern_PS == <<"P", "S">>
Pattern_wind == <<"w", "i", "n", "d">>
Pattern_WS == <<"W", "S">>

\* the branch of the if/elif chain (lines 1334-1348) the variable takes
family(variable) ==
    IF \/ contains(lower(variable), Pattern_temperature)
       \/ contains(variable, Pattern_T2M)
    THEN "temperature"
    ELSE IF contains(lower(variable), Pattern_precipitation)
    THEN "precipitation"
    ELSE IF \/ contains(lower(variable), Pattern_humidity)
            \/ contains(variable, Pattern_RH)
    THEN "humidity"
    ELSE IF \/ contains(lower(variable), Pattern_pressure)
            \/ contains(variable, Pattern_PS)
    THEN "pressure"
    ELSE IF \/ contains(lower(variable), Pattern_wind)
            \/ contains(variable, Pattern_WS)
    THEN "wind"
    ELSE "other"

DaysPerYear == 365

\* Scale * sin(pi h / DaysPerYear) for h in 0..DaysPerYear, by Bhaskara's
\* approximation 16 t (1 - t) / (5 - 4 t (1 - t)) of sin(pi t), which is
\* exact at t = 0, 1/6, 1/2, 5/6, 1 and off by less than 0.002 elsewhere;
\* the quotient is rounded down
half_wave(h) ==
    (16 * Scale * h * (DaysPerYear - h))
        \div (5 * DaysPerYear * DaysPerYear - 4 * h * (DaysPerYear - h))

\* Scale * math.sin(2 * math.pi * k / 365)
sin_year(k) ==
    IF (2 * k) % (2 * DaysPerYear) <= DaysPerYear
    THEN half_wave((2 * k) % (2 * DaysPerYear))
    ELSE 0 - half_wave(((2 * k) % (2 * DaysPerYear)) - DaysPerYear)

\* random.random() gives r / RandomDen for an r in 0..RandomDen
RandomDen == 2
\* random.uniform(a, b) = a + (b - a) * random.random()
uniform(a, b, r) == a + ((b - a) * r) \div RandomDen

\* random.gammavariate(alpha, beta): a positive float, g
gammavariate(alpha, beta, g) == g

\* (variant: the value is not lifted to zero)
nonnegative_off(x) == x

\* max(0, x)
nonnegative(x) == Max(0, x)

\* base_temp = 15 + 10 * math.sin(2 * math.pi * (day_of_year - 80) / 365)
base_temp(doy) == 15 * Scale + 10 * sin_year(doy - 80)

\* lat_effect = max(0, (abs(lat) - 30) * 0.5), lat in whole degrees
lat_effect(lat) == Max(0, ((Abs(lat) - 30) * Scale) \div 2)

\* historical_trend (lines 1328-1332): 0 with no history
historical_trend(historical_data, base) ==
    IF historical_data # <<>>
    THEN Sum(recent_values(historical_data), 1)
             \div Len(recent_values(historical_data)) - base
    ELSE 0

\* the return statements of lines 1334-1348; draws = [elevation, u, g]: the
\* draw of elevation_effect, of the branch's uniform and of its gamma
value_of_family(fam, doy, base, lat_eff, trend, draws) ==
    IF fam = "temperature"
    THEN base - lat_eff + uniform((0 - 2) * Scale, 2 * Scale, draws.elevation)
           + (3 * trend) \div 10 + uniform(0 - Scale, Scale, draws.u)
    ELSE IF fam = "precipitation"
    THEN nonnegative(gammavariate(2, 1, draws.g)
                       + (3 * sin_year(doy - 100)) \div 2)
    ELSE IF fam = "humidity"
    THEN 50 * Scale + 20 * sin_year(doy)
           + uniform((0 - 8) * Scale, 8 * Scale, draws.u)
    ELSE IF fam = "pressure"
    THEN 1013 * Scale - lat_eff * 2
           + uniform((0 - 3) * Scale, 3 * Scale, draws.u)
    ELSE IF fam = "wind"
    THEN nonnegative(gammavariate(1, 2, draws.g)
                       + uniform(0 - Scale \div 2, Scale \div 2, draws.u))
    ELSE 25 * Scale + uniform((0 - 3) * Scale, 3 * Scale, draws.u)

\* _generate_enhanced_simulated_value(variable, lat, lon, timestamp,
\* historical_data)
enhanced_simulated_value(variable, lat, timestamp, historical_data, draws) ==
    value_of_family(family(variable), day_of_year(timestamp),
                    base_temp(day_of_year(timestamp)), lat_effect(lat),
                    historical_trend(historical_data,
                                     base_temp(day_of_year(timestamp))),
                    draws)

(***************************************************************************)
(* The generator applied to drawn arguments.                               *)
(***************************************************************************)
GeneratorVariables ==
    {<<"T", "2", "M">>,
     <<"T", "2", "M", "_", "M", "A", "X">>,
     <<"P", "R", "E", "C", "T", "O", "T">>,
     <<"R", "H", "2", "M">>,
     <<"W", "S", "1", "0", "M">>,
     <<"P", "S">>,
     <<"p", "r", "e", "c", "i", "p", "i", "t", "a", "t", "i", "o", "n", "C", "a", "l">>,
     <<"T", "a", "i", "r", "_", "f", "_", "i", "n", "s", "t">>,
     <<"T", "e", "m", "p", "e", "r", "a", "t", "u", "r", "e">>,
     <<"W", "I", "N", "D">>,
     <<"w", "i", "n", "d", "_", "t", "e", "m", "p", "e", "r", "a", "t", "u", "r", "e">>,
     <<"P", "r", "e", "s", "s", "u", "r", "e">>}

GeneratorLats == {0 - 60, 0, 45}
GeneratorDays == {9, 80, 171, 283, 366}
GammaDraws == {1, Scale \div 2, 3 * Scale}
Draws == [elevation : 0..RandomDen, u : 0..RandomDen, g : GammaDraws]

\* histories: none, one observation, and more than five of them
Histories ==
    {<<>>} \cup {Rep(n, [value |-> v * Scale]) \o <<[value |-> w * Scale]>> :
                    n \in {0, 5}, v \in {15}, w \in {0 - 40, 100}}

InitGenerator ==
    /\ InitAcq
    /\ auth = FALSE
    /\ df = <<>>
    /\ data_dict = <<>>
    /\ models = <<>>
    /\ forecast_cache = <<>>
    /\ result = NoResult
    /\ prev_result = NoResult
    /\ calls = 0
    /\ generated \in [variable : GeneratorVariables, lat : GeneratorLats,
                       timestamp : GeneratorDays, historical_data : Histories,
                       draws : Draws, called : {FALSE}, value : {0}]

\* value = self._generate_enhanced_simulated_value(variable, lat, lon,
\* timestamp, historical_data)
Generate ==
    /\ ~generated.called
    /\ generated' = [generated EXCEPT
                        !.called = TRUE,
                        !.value = enhanced_simulated_value(
                                      generated.variable, generated.lat,
                                      generated.timestamp,
                                      generated.historical_data,
                                      generated.draws)]
    /\ UNCHANGED <<acqVars, cleanVars>>
    /\ UNCHANGED <<data_dict, models, forecast_cache, result, prev_result,
                   calls>>

SpecGenerator == InitGenerator /\ [][Generate]_vars

(***************************************************************************)
(* Properties of the generator (specification SpecGenerator).              *)
(***************************************************************************)
Generated == generated # NoResult /\ generated.called

\* C21: the generator returns a value for every variable name, latitude,
\* date and recent-values list, and the value is at least 0 whenever the
\* variable takes the precipitation or the wind branch
C21_GeneratorTotalAndNonNegative ==
    Generated =>
      /\ generated.value \in Int
      /\ family(generated.variable) \in {"precipitation", "wind"}
            => generated.value >= 0

\* a precipitation value and a wind value that the max lifted to zero, and
\* a temperature value below zero
C21_Witness ==
    /\ Generated
    /\ family(generated.variable) = "precipitation"
    /\ generated.value = 0
    /\ gammavariate(2, 1, generated.draws.g)
         + (3 * sin_year(day_of_year(generated.timestamp) - 100)) \div 2 < 0

(***************************************************************************)
(* Properties of prepare_multi_features (specification SpecAnalyzer).      *)
(***************************************************************************)
IsFeatures == result # NoResult /\ result.call.name = "features"

\* the variables of the mapping handed to the latest call that have rows
NonEmptyVariables ==
    {k \in dict_keys(result.before) : ~is_empty(dict_get(result.before, k))}

\* every series of that mapping holds numbers only
AllNumeric ==
    \A k \in dict_keys(result.before) :
        is_numeric(dict_get(result.before, k).rows)

\* C22: prepare_multi_features skips the variables whose series is empty and
\* merges the others into one table that has a '<variable>_value' column for
\* every non-empty variable, wherever the empty series sit in the mapping;
\* the table is empty when no variable yields features.
C22_MergesNonEmptyVariables ==
    (IsFeatures /\ AllNumeric) =>
      /\ ~result.ret.raised
      /\ result.ret.empty <=> NonEmptyVariables = {}
      /\ \A k \in NonEmptyVariables :
            VarCol(k, "_value") \in result.ret.columns

\* the seasonal component of the latest forecast: the third from the end
SeasonalComponent == Components[Len(Components) - 2]

\* C23: the learned regressor contributes a component only when the target
\* series has more than 30 points, and the seasonal component is the overall
\* mean when the series has fewer than 30 points (the average by day of year
\* only from 30 points on); a successful forecast has exactly 3 components
\* for a target series of 10 to 30 points and 3 or 4 for a longer one.
C23_ComponentsByLength ==
    Succeeded =>
      /\ Len(TargetRows) >= MinHistory
      /\ Len(Components) = result.ret.models_used
      /\ Len(TargetRows) <= RegressorMinLen => result.ret.models_used = 3
      /\ Len(TargetRows) > RegressorMinLen => result.ret.models_used \in {3, 4}
      /\ Len(TargetRows) < SeasonalMinLen
            => SeasonalComponent = mean(TargetRows)

\* a forecast of 4 components on 31 points whose seasonal component is the
\* value of the target's day and not the overall mean
C23_Witness ==
    /\ Succeeded
    /\ Len(TargetRows) = RegressorMinLen + 1
    /\ result.ret.models_used = 4
    /\ day_of_year(result.call.date) \in 1..Len(TargetRows)
    /\ SeasonalComponent = Scale * TargetRows[day_of_year(result.call.date)]
    /\ SeasonalComponent # mean(TargetRows)

\* the severity tiers, lowest first
Tiers == <<"low", "medium", "high">>

TierThreshold(condition_id, k) ==
    IF k = 1 THEN WEATHER_CONDITIONS[condition_id].low
    ELSE IF k = 2 THEN WEATHER_CONDITIONS[condition_id].medium
    ELSE WEATHER_CONDITIONS[condition_id].high

\* the operating threshold of the condition (its 'medium' threshold) is on or
\* beyond the threshold of tier k, in the direction of the condition
TierSatisfied(condition_id, k) ==
    IF TypeOf(condition_id) = "above"
    THEN WEATHER_CONDITIONS[condition_id].medium
            >= TierThreshold(condition_id, k)
    ELSE WEATHER_CONDITIONS[condition_id].medium
            <= TierThreshold(condition_id, k)

\* C24: the severity of a risk assessment is the highest of the tiers low,
\* medium, high whose threshold is satisfied, in the comparison direction of
\* the hazard ('below' for extreme_cold only), by the operating threshold of
\* the hazard, which is the threshold of its 'medium' tier.
C24_SeverityIsHighestSatisfiedTier ==
    (IsRisks /\ ~result.ret.raised) =>
      \A e \in Entries :
        \E k \in 1..Len(Tiers) :
          /\ e.severity = Tiers[k]
          /\ TierSatisfied(e.condition_id, k)
          /\ \A j \in (k + 1)..Len(Tiers) : ~TierSatisfied(e.condition_id, j)

\* assessments of skiing: extreme_cold at 'medium' (its 'high' tier is not
\* satisfied) and poor_visibility at 'high' (its 'low' tier is not satisfied)
C24_Witness ==
    /\ IsRisks
    /\ ~result.ret.raised
    /\ HasEntry("extreme_cold")
    /\ EntryOf("extreme_cold").severity = "medium"
    /\ ~TierSatisfied("extreme_cold", 3)
    /\ HasEntry("poor_visibility")
    /\ EntryOf("poor_visibility").severity = "high"
    /\ ~TierSatisfied("poor_visibility", 1)

\* the key of mapping d at position i contains a keyword of the condition
KeyMatches(condition_id, d, i) ==
    \E keyword \in condition_keywords[condition_id] : keyword_in(keyword, d[i][1])

\* the position in d of the variable the condition is assessed on: the first
\* key that matches, and the first key when none does
RelevantPosition(condition_id, d) ==
    IF \E i \in 1..Len(d) : KeyMatches(condition_id, d, i)
    THEN CHOOSE i \in 1..Len(d) :
            /\ KeyMatches(condition_id, d, i)
            /\ \A j \in 1..(i - 1) : ~KeyMatches(condition_id, d, j)
    ELSE 1

\* the latest call assessed an activity of ACTIVITY_PRESETS
KnownActivity == IsRisks /\ result.call.activity \in DOMAIN ACTIVITY_PRESETS

\* C25: no hazard makes the risk call fail; the relevant variable of a hazard
\* is the first key of the mapping that contains one of its keywords, and
\* the first key of the mapping when no key does; for a non-empty mapping of
\* well-formed series the result has an assessment for every hazard of the
\* activity, and for an empty mapping it has none.
C25_EveryHazardAssessed ==
    KnownActivity =>
      /\ ~result.ret.raised
      /\ result.before = <<>> => result.ret.risks = <<>>
      /\ \A e \in Entries :
            e.relevant_variable
              = result.before[RelevantPosition(e.condition_id,
                                               result.before)][1]
      /\ (result.before # <<>> /\ AllNumeric)
            => \A i \in 1..Len(ACTIVITY_PRESETS[result.call.activity]) :
                  HasEntry(ACTIVITY_PRESETS[result.call.activity][i])

\* skiing assessed on a mapping whose first key is the precipitation series
\* and whose second is the temperature series: extreme_cold is assessed on
\* the second key, which matches, strong_winds on the first, as no key does
C25_Witness ==
    /\ KnownActivity
    /\ result.call.activity = "skiing"
    /\ Len(result.before) = 2
    /\ AllNumeric
    /\ Len(result.ret.risks) = Len(ACTIVITY_PRESETS["skiing"])
    /\ EntryOf("extreme_cold").relevant_variable = result.before[2][1]
    /\ ~KeyMatches("strong_winds", result.before, 1)
    /\ ~KeyMatches("strong_winds", result.before, 2)
    /\ EntryOf("strong_winds").relevant_variable = result.before[1][1]

\* the call before the latest was a risk call that returned
PrevIsRisks ==
    /\ prev_result # NoResult
    /\ prev_result.call.name = "risks"
    /\ ~prev_result.ret.raised

PrevEntries == {prev_result.ret.risks[i] : i \in 1..Len(prev_result.ret.risks)}

\* the tier each hazard is reported at
FixedTier ==
    [extreme_heat |-> "medium", extreme_cold |-> "medium",
     heavy_precipitation |-> "medium", strong_winds |-> "medium",
     poor_visibility |-> "high", air_quality |-> "medium",
     wildfire_risk |-> "medium", uv_radiation |-> "medium"]

\* C28: the severity reported by analyze_comprehensive_risks does not depend
\* on the observed series, the forecast or the target date: a hazard is
\* reported at one and the same tier in every call, whatever the mapping,
\* the date, the activity and the probabilities of the assessment.
C28_SeverityIsStatic ==
    (IsRisks /\ ~result.ret.raised) =>
      /\ \A e \in Entries : e.severity = FixedTier[e.condition_id]
      /\ PrevIsRisks
            => \A e \in Entries : \A f \in PrevEntries :
                  e.condition_id = f.condition_id => e.severity = f.severity

\* two calls in a row, for different activities and dates, assess
\* extreme_cold with different probabilities and at the same tier
C28_Witness ==
    /\ IsRisks
    /\ ~result.ret.raised
    /\ PrevIsRisks
    /\ result.call.activity # prev_result.call.activity
    /\ result.call.date # prev_result.call.date
    /\ \E e \in Entries : \E f \in PrevEntries :
          /\ e.condition_id = "extreme_cold"
          /\ f.condition_id = "extreme_cold"
          /\ e.probability # f.probability
          /\ e.severity = f.severity

(***************************************************************************)
(* Further properties of get_multi_variable_data (specification Spec).     *)
(***************************************************************************)
\* the dates processed so far in the call under way: those of the pairs that
\* are finished and those of the pair in the while loop
ProcessedDates ==
    ExpectedLen * Cardinality({j \in 1..(idx - 1) :
                                  j <= Len(products_variables)
                                  /\ recognized(products_variables[j][1])})
      + (IF pc = "while" THEN days_processed ELSE 0)

\* C26: the progress callback is called once after each processed date;
\* every value it is given, completed_requests / total_requests, lies in
\* [0, 1]; the values are strictly increasing over the whole call; and with
\* start_date > end_date it is never called.
C26_ProgressReports ==
    (pc # "idle") =>
      /\ Len(progress) = ProcessedDates
      /\ \A i \in 1..Len(progress) :
            /\ progress[i][2] > 0
            /\ 0 <= progress[i][1]
            /\ progress[i][1] <= progress[i][2]
      /\ \A i \in 1..(Len(progress) - 1) :
            progress[i][1] * progress[i + 1][2]
               < progress[i + 1][1] * progress[i][2]
      /\ StartDate > end_date => progress = <<>>

\* a finished call for two pairs over three days: six reports, the last one
\* being 1
C26_Witness ==
    /\ pc = "done"
    /\ Len(products_variables) = 2
    /\ DaysInRange = 3
    /\ Len(progress) = 6
    /\ progress[6][1] = progress[6][2]

\* the values of the observations of data_points before position i that a
\* historical trend over them would use: the last five
RecentBefore(i) == recent_values(SubSeq(data_points, 1, i - 1))

\* C27: whenever an observation of get_multi_variable_data is produced by the
\* synthetic generator, the generator was handed the observations gathered
\* so far for that variable, so that from the second date on its historical
\* trend is taken over their last five values.
C27_GeneratorGetsHistory ==
    \A i \in 1..Len(data_points) :
        data_points[i].origin = "synthetic"
           => data_points[i].recent = Some(RecentBefore(i))

\* the pair in the while loop is a MERRA2_400 pair that comes after another
\* MERRA2_400 pair of the request
LaterMerra2Pair ==
    /\ pc = "while"
    /\ products_variables[idx][1] = "MERRA2_400"
    /\ \E i \in 1..(idx - 1) : products_variables[i][1] = "MERRA2_400"

\* C29: the key of the resolved dates holds the date and not the variable:
\* a get_merra2_data call makes download attempts only for a date that no
\* earlier call on the client attempted, and leaves the date resolved; so
\* when get_multi_variable_data is asked for several MERRA2_400 variables
\* over the same dates, only the first of them can receive a fetched value
\* for a date, and every later one gets a synthetic value for every date.
C29_OneAttemptedCallPerDate ==
    [][ /\ downloaded_dates \subseteq downloaded_dates'
        /\ (IsFetch /\ last_fetch'.attempts > 0)
              => /\ date_key(last_fetch'.date) \notin downloaded_dates
                 /\ date_key(last_fetch'.date) \in downloaded_dates'
        /\ LaterMerra2Pair'
              => \A i \in 1..Len(data_points') :
                    data_points'[i].origin = "synthetic" ]_vars

\* with credentials, the first MERRA2_400 variable got a fetched value for
\* the first date and the second one a synthetic value, without an attempt
C29_Witness ==
    /\ auth
    /\ LaterMerra2Pair
    /\ products_variables[1][1] = "MERRA2_400"
    /\ products_variables[1][2] # products_variables[2][2]
    /\ Len(all_data) = 1
    /\ all_data[1][2][1].origin = "extracted"
    /\ Len(data_points) >= 1
    /\ data_points[1].timestamp = all_data[1][2][1].timestamp
    /\ data_points[1].origin = "synthetic"
    /\ last_fetch.path = "cached"
    /\ last_fetch.attempts = 0

(***************************************************************************)
(* The pipeline of the forecast page (lines 2273-2289): the mapping that   *)
(* get_multi_variable_data returned is handed to forecast_multi_ensemble.  *)
(***************************************************************************)
\* f"{product_key}_{variable}", the key of all_data (line 1291)
frame_key(pair) ==
    CASE pair = <<"MERRA2_400", "T2M">> -> "MERRA2_400_T2M"
      [] pair = <<"MERRA2_400", "PRECTOT">> -> "MERRA2_400_PRECTOT"
      [] pair = <<"IMERG_FINAL", "precipitationCal">>
            -> "IMERG_FINAL_precipitationCal"
      [] pair = <<"GLDAS_NOAH", "Tair_f_inst">> -> "GLDAS_NOAH_Tair_f_inst"

\* the frame of a cleaned series: its 'value' column
series_frame(series) == Frame([i \in 1..Len(series) |-> series[i].value])

\* multi_data as the analyzer sees it
multi_data(m) ==
    [i \in 1..Len(m) |-> <<frame_key(m[i][1]), series_frame(m[i][2])>>]

\* multi_data = self.data_manager.get_multi_variable_data(...)
HandOver ==
    /\ pc = "done"
    /\ pc' = "forecasts"
    /\ data_dict' = multi_data(all_data)
    /\ UNCHANGED <<auth, downloaded_dates, temp_files, last_fetch,
                   products_variables, end_date, idx, all_data,
                   data_points, current_date, days_processed, fetches,
                   completed_requests, progress, events>>
    /\ UNCHANGED <<models, forecast_cache, result, prev_result, calls>>
    /\ UNCHANGED <<cleanVars, genVars>>

\* forecasts made on one result
MaxPipelineCalls == 1

\* what the regressor would do if it were fitted: raise, or predict
PipelineRF == {None} \cup {Some(v) : v \in Values}

\* forecast = self.analyzer.forecast_multi_ensemble(multi_data, var_name,
\* forecast_date), for a key of multi_data
PipelineForecast(var_name, forecast_date) ==
    /\ pc = "forecasts"
    /\ calls < MaxPipelineCalls
    /\ var_name \in dict_keys(data_dict)
    /\ \E rf \in PipelineRF :
          AnalyzerReturn([name |-> "forecast", target |-> var_name,
                          date |-> forecast_date, rf |-> rf],
                         forecast_multi_ensemble(data_dict, var_name,
                                                 forecast_date, rf))
    /\ UNCHANGED <<models, forecast_cache>>
    /\ UNCHANGED <<acqVars, cleanVars, genVars>>

NextPipeline ==
    \/ Next
    \/ HandOver
    \/ \E var_name \in {frame_key(pair) : pair \in Pairs \ {<<"UNKNOWN", "X">>}},
          forecast_date \in TargetDates :
          PipelineForecast(var_name, forecast_date)

SpecPipeline == Init /\ [][NextPipeline]_vars

\* C30: every series get_multi_variable_data produces has at most 10 points;
\* so a forecast made on its result succeeds only when the requested range
\* spans at least 10 days, has no component of the learned regressor, has
\* the overall mean of the series as its seasonal component, and has
\* exactly 3 components.
C30_PipelineForecastsHaveThreeComponents ==
    /\ \A j \in 1..Len(all_data) : Len(all_data[j][2]) <= max_daily_requests
    /\ \A j \in 1..Len(data_dict) : Len(data_dict[j][2].rows) <= max_daily_requests
    /\ Succeeded =>
          /\ DaysInRange >= MinHistory
          /\ result.ret.models_used = 3
          /\ Len(Components) = 3
          /\ Components[1] = mean(TargetRows)
          /\ Components[2] = Scale * TargetRows[Len(TargetRows)]

\* a successful forecast on a series fetched over the long range, with a
\* regressor that would have predicted: 3 components, the seasonal one being
\* the mean and not the value of the target's day of the year
C30_Witness ==
    /\ pc = "forecasts"
    /\ Succeeded
    /\ result.call.rf # None
    /\ DaysInRange > RegressorMinLen
    /\ Len(TargetRows) = max_daily_requests
    /\ result.ret.models_used = 3
    /\ day_of_year(result.call.date) \in 1..Len(TargetRows)
    /\ Components[1] = mean(TargetRows)
    /\ Components[1] # Scale * TargetRows[day_of_year(result.call.date)]

====
